---- MODULE Spec2Model ----
(***************************************************************************)
(* NEOATTEND: the record store (localStorage collections of people and     *)
(* attendance entries), the flows that write entries, and the aggregation  *)
(* code of the dashboard screens that read them.                           *)
(*                                                                         *)
(* Time is counted in seconds of local wall-clock time; an instant is      *)
(* day * DaySec + second-of-day.  A rate (x / n) * 100 is kept exact as    *)
(* the pair [num |-> 100 * x, den |-> n]; den = 0 is JavaScript's NaN      *)
(* (num = 0) or Infinity (num > 0).                                        *)
(*                                                                         *)
(* Spec      one tab: the store, the marking flows, settings and screens.  *)
(* SpecTabs  the same store written by a marking run of a second tab.      *)
(* SpecStats calculateStudentStats over the entries it can be given.       *)
(* SpecHistory the statistics of one person over every short history, in   *)
(*           every storage order.                                          *)
(* SpecPeople  enrollment: forms, test-data loaders, recognizer memory.    *)
(* SpecStore   saveStudent, updateStudent, deleteStudent on every input.   *)
(* SpecMarking one tab that only marks: recognition flows, manual edits.   *)
(* SpecAppend  saveStudent and markAttendance called from two tabs.        *)
(* SpecRecognizer the model load and the recognizer calls that await it.   *)
(* SpecRuns, SpecRunsFair  a marking run step by step, and its progress.   *)
(* SpecAuth    signup, login, logout, session restore and the routes.      *)
(* SpecClear   the test-data screen: summary and clear.                    *)
(***************************************************************************)
EXTENDS Integers, Sequences, FiniteSets, TLC

VARIABLES
    students,      \* localStorage 'neoattend_students': sequence of person records
    records,       \* localStorage 'neoattend_attendance': sequence of entries
    storedSettings,\* localStorage 'neoattend_settings': lateThreshold, 0 when the key is absent
    clock,         \* the wall clock (new Date()), local seconds
    tz,            \* the browser's offset from UTC in seconds (local = UTC + tz)
    started,       \* the application has been mounted in the primary tab
    view,          \* component state of the screen mounted in the primary tab
    other,         \* a marking run in progress in a second open tab
    faceDescriptors,\* facialRecognition.faceDescriptors: the roll numbers with a signature,
                   \* in the memory of the page (followed through the enrollment flows)
    registeredFaces,\* FaceRecognitionService.registeredFaces: the same for that service
    calls,         \* per open tab, the DatabaseService call the tab is inside of
    modelsLoaded,  \* FacialRecognitionService.modelsLoaded
    isInitializing,\* FacialRecognitionService.isInitializing
    faceWork,      \* the asynchronous recognizer calls of the page, each at its await
    isProcessing,  \* isProcessing of the mounted marking screen
    run,           \* the marking run of that screen, at its await
    isAuthenticated,\* App state
    userType,      \* App state: "faculty", "student" or "null"
    storedAuth,    \* localStorage 'neoattend_auth'
    route,         \* the location the router is at
    accounts,      \* localStorage 'user_<rollNo>', by roll number
    credentials    \* Login state: the role selected and the fields typed

storeVars == <<students, records, storedSettings, clock, tz, started, view, other,
               faceDescriptors, registeredFaces>>
callVars == <<calls>>
recognizerVars == <<modelsLoaded, isInitializing, faceWork>>

\* the state that only the flows of the later sections step
runVars == <<isProcessing, run>>
authVars == <<isAuthenticated, userType, storedAuth, route, accounts, credentials>>
sessionVars == <<callVars, recognizerVars, runVars, authVars>>
besideCalls == <<recognizerVars, runVars, authVars>>
besideRecognizer == <<callVars, runVars, authVars>>
besideRuns == <<callVars, recognizerVars, authVars>>
besideAuth == <<callVars, recognizerVars, runVars>>

vars == <<storeVars, sessionVars>>

(***************************************************************************)
(* Bounds of the model.                                                    *)
(***************************************************************************)
MaxDay == 0          \* the clock runs over days FirstDay .. FirstDay + MaxDay
MaxStudents == 2     \* people in the collection
MaxRecords == 3      \* entries in the collection
MaxFaces == 2        \* faces recognised in one photo
MaxFaceCalls == 2    \* recognizer calls in progress at once
MaxIds == 3          \* distinct ids handed out by generateId
RosterSize == 2      \* test roster (10 in the source)
PresentCut == 1      \* roster indexes below it are generated Present today (6 in the source)
LateCut == 1         \* roster indexes below it are generated Late today (8 in the source)
HistoryDays == 1     \* past days the test generator fills (7 in the source)

(***************************************************************************)
(* Time.                                                                   *)
(***************************************************************************)
DaySec == 24 * 60 * 60
FirstDay == HistoryDays + 1
\* 09:15:30, 09:16:00, 10:30:00
Slots == {9 * 3600 + 15 * 60 + 30, 9 * 3600 + 16 * 60, 10 * 3600 + 30 * 60}
Instants == {d * DaySec + s : d \in FirstDay .. (FirstDay + MaxDay), s \in Slots}
\* a zone ten hours ahead of UTC: the UTC date changes at 10:00 local time
TimeZones == {10 * 3600}

\* Date.setHours(0,0,0,0).getTime() / toDateString(): the local calendar day
LocalDay(ts) == ts \div DaySec
\* toISOString().split('T')[0]: the UTC calendar day
UtcDay(ts, zone) == (ts - zone) \div DaySec
\* getHours() * 60 + getMinutes(): seconds are dropped
MinuteOfDay(ts) == ((ts % DaySec) \div 3600) * 60 + (((ts % DaySec) % 3600) \div 60)
\* date.setHours(9, 0, 0, 0) followed by setMinutes(getMinutes() + off)
NineAM(day, off) == day * DaySec + 9 * 3600 + off * 60

Statuses == {"Present", "Late", "Absent"}
Roles == {"student", "faculty"}

\* department is free text; the first roster entries are in Computer Science
RosterDepartment == "Computer Science"
\* the department typed at registration
Departments == {"Electronics"}
\* recognition confidence in percent; ManualConfidence is the manual sentinel 1.0
Confidences == {90}
ManualConfidence == 100

(***************************************************************************)
(* DatabaseService.                                                        *)
(***************************************************************************)
Filter(s, Test(_)) == SelectSeq(s, Test)

Count(s, Test(_)) == Len(Filter(s, Test))

UsedIds(studs, recs) ==
    {studs[i].id : i \in DOMAIN studs} \cup {recs[i].studentId : i \in DOMAIN recs}

\* generateId: ten random characters out of 62.  Ids are opaque and only compared
\* for equality, so the least unused number stands for every id not yet in use;
\* a draw that repeats an id in use (1 in 62^10) is not modelled.
GenerateId(studs, recs) ==
    LET used == UsedIds(studs, recs)
        fresh == CHOOSE n \in 1 .. (Cardinality(used) + 1) : n \notin used
    IN  {fresh}

\* saveStudent / addStudent
SaveStudent(studs, id, role, department) ==
    Append(studs, [id |-> id, role |-> role, department |-> department])

\* deleteStudent
DeleteStudentFrom(studs, id) == Filter(studs, LAMBDA s : s.id # id)

\* markAttendance
MarkAttendance(recs, sid, ts, status, conf) ==
    Append(recs, [studentId |-> sid, timestamp |-> ts, status |-> status, confidence |-> conf])

\* getTodayAttendance
GetTodayAttendance(recs, now) ==
    Filter(recs, LAMBDA r : LocalDay(r.timestamp) = LocalDay(now))

(***************************************************************************)
(* The test-data generator that runs when the application starts.          *)
(***************************************************************************)
\* representatives of Math.floor(Math.random() * k) + base, in minutes after 09:00
HistPresentOffsets == {0}     \* 0 .. 9
HistLateOffsets == {15}       \* 15 .. 44
TodayPresentOffsets == {0}    \* 0 .. 4
TodayLateOffsets == {20}      \* 20 .. 39

HistChoices ==
    {[status |-> "none", off |-> 0]}
    \cup {[status |-> "Present", off |-> o] : o \in HistPresentOffsets}
    \cup {[status |-> "Late", off |-> o] : o \in HistLateOffsets}

\* loadTestStudents: the roster's ids, one generateId call per student
RECURSIVE AddRoster(_, _, _)
AddRoster(studs, recs, ids) ==
    IF ids = <<>> THEN studs
    ELSE AddRoster(SaveStudent(studs, Head(ids), "student", RosterDepartment), recs, Tail(ids))

\* generatePastWeekAttendance: dayOffset from HistoryDays down to 1, students in order
RECURSIVE GenPast(_, _, _, _, _, _)
GenPast(recs, ids, today, hist, dayOffset, i) ==
    IF dayOffset < 1 THEN recs
    ELSE IF i > Len(ids) THEN GenPast(recs, ids, today, hist, dayOffset - 1, 1)
    ELSE LET c == hist[dayOffset][i]
             next == IF c.status = "none" THEN recs
                     ELSE MarkAttendance(recs, ids[i], NineAM(today - dayOffset, c.off),
                                         c.status, 90)
         IN  GenPast(next, ids, today, hist, dayOffset, i + 1)

\* generateTodayAttendance: by roster index
RECURSIVE GenToday(_, _, _, _, _, _)
GenToday(recs, ids, today, pOff, lOff, i) ==
    IF i > Len(ids) THEN recs
    ELSE LET next == IF i - 1 < PresentCut
                        THEN MarkAttendance(recs, ids[i], NineAM(today, pOff), "Present", 90)
                     ELSE IF i - 1 < LateCut
                        THEN MarkAttendance(recs, ids[i], NineAM(today, lOff), "Late", 90)
                     ELSE recs
         IN  GenToday(next, ids, today, pOff, lOff, i + 1)

\* the sequences of ids that RosterSize successive generateId calls can return
RECURSIVE RosterIds(_, _, _)
RosterIds(studs, recs, n) ==
    IF n = 0 THEN {<<>>}
    ELSE UNION {{<<id>> \o rest :
                    rest \in RosterIds(SaveStudent(studs, id, "student", RosterDepartment),
                                       recs, n - 1)}
                : id \in GenerateId(studs, recs)}

NoView == [screen |-> "none"]
Idle == [pc |-> "idle"]

\* the tabs that have the application open
Tabs == {1, 2}
NoCall == [pc |-> "idle"]
\* the recognizer calls that can be awaiting at once
FaceCalls == 1 .. MaxFaceCalls

\* the roll numbers typed into a form: 0 stands for the empty field, the roster
\* has the roll numbers 1 .. RosterSize
RollNos == {1, RosterSize + 1}

\* no 'neoattend_auth' key, no 'user_<rollNo>' key
NoAuth == [userType |-> "null"]
NoAccount == [type |-> "null"]

\* no call in progress, nobody logged in, the login form as useState leaves it
SessionInit ==
    /\ calls = [t \in Tabs |-> NoCall]
    /\ modelsLoaded = FALSE
    /\ isInitializing = FALSE
    /\ faceWork = [c \in FaceCalls |-> NoCall]
    /\ isProcessing = FALSE
    /\ run = NoCall
    /\ isAuthenticated = FALSE
    /\ userType = "null"
    /\ storedAuth = NoAuth
    /\ route = "/"
    /\ accounts = [rollNo \in RollNos |-> NoAccount]
    /\ credentials = [userType |-> "faculty", username |-> 0, password |-> ""]

Init ==
    /\ students = <<>>
    /\ records = <<>>
    /\ storedSettings = 0
    /\ clock \in Instants
    /\ tz \in TimeZones
    /\ started = FALSE
    /\ view = NoView
    /\ other = Idle
    /\ faceDescriptors = {}
    /\ registeredFaces = {}
    /\ SessionInit

\* App's mount effect, second half: the session is restored from 'neoattend_auth'
RestoreAuth ==
    IF storedAuth # NoAuth
    THEN /\ isAuthenticated' = TRUE
         /\ userType' = storedAuth.userType
    ELSE UNCHANGED <<isAuthenticated, userType>>

\* App's mount effect: initializeTestData() loads the roster when no person is
\* stored, the stored session is restored, and setInitialLoadComplete(true)
AppStart ==
    /\ ~started
    /\ started' = TRUE
    /\ view' = NoView
    /\ IF Len(students) = 0
       THEN \E ids \in RosterIds(students, records, RosterSize) :
            \E hist \in [1 .. HistoryDays -> [1 .. RosterSize -> HistChoices]] :
            \E pOff \in TodayPresentOffsets, lOff \in TodayLateOffsets :
               LET today == LocalDay(clock)
                   past == GenPast(records, ids, today, hist, HistoryDays, 1)
               IN  /\ students' = AddRoster(students, records, ids)
                   /\ records' = GenToday(past, ids, today, pOff, lOff, 1)
                   /\ Len(records') <= MaxRecords
       ELSE UNCHANGED <<students, records>>
    /\ UNCHANGED <<storedSettings, clock, tz, other, faceDescriptors, registeredFaces>>
    /\ RestoreAuth
    /\ UNCHANGED <<storedAuth, route, accounts, credentials, besideAuth>>

\* Signup.handleSubmit / StudentManagement.handleSubmit (on its own route: the
\* screen mounted before is unmounted)
RegisterStudent ==
    /\ started
    /\ Len(students) < MaxStudents
    /\ \E id \in GenerateId(students, records), role \in Roles, department \in Departments :
          /\ id <= MaxIds
          /\ students' = SaveStudent(students, id, role, department)
    /\ view' = NoView
    /\ UNCHANGED <<records, storedSettings, clock, tz, started, other,
                   faceDescriptors, registeredFaces>>
    /\ UNCHANGED sessionVars

\* StudentManagement.deleteStudent
DeleteStudent ==
    /\ started
    /\ \E i \in DOMAIN students :
          students' = DeleteStudentFrom(students, students[i].id)
    /\ view' = NoView
    /\ UNCHANGED <<records, storedSettings, clock, tz, started, other,
                   faceDescriptors, registeredFaces>>
    /\ UNCHANGED sessionVars


(***************************************************************************)
(* Status derivation and the marking flows.                                *)
(***************************************************************************)
\* lectureStart = 9 * 60, lateThreshold = lectureStart + 15, status Late when
\* currentTime > lateThreshold; the stored lateThreshold setting is not read
LateThresholdMinute == 9 * 60 + 15
StatusAt(now) == IF MinuteOfDay(now) > LateThresholdMinute THEN "Late" ELSE "Present"

\* detectClassroomFaces: every detected face carries a random descriptor, so it can
\* match any stored person whose roll number has a descriptor in this tab's
\* recognizer (registering one is always possible), with confidence >= MIN_CONFIDENCE
RECURSIVE SeqsUpTo(_, _)
SeqsUpTo(S, n) ==
    IF n = 0 THEN {<<>>}
    ELSE LET shorter == SeqsUpTo(S, n - 1)
         IN  shorter \cup {Append(q, x) : q \in {r \in shorter : Len(r) = n - 1}, x \in S}

DetectClassroomFaces(studs) ==
    SeqsUpTo({[id |-> studs[i].id, confidence |-> c] : i \in DOMAIN studs, c \in Confidences},
             MaxFaces)

\* a check that finds nobody marked
NeverMarked(recs, clk, sid) == FALSE

AlreadyMarked(recs, clk, sid) ==
    \E i \in DOMAIN recs :
        /\ LocalDay(recs[i].timestamp) = LocalDay(clk)
        /\ recs[i].studentId = sid

\* the faces a flow goes on to mark
CaptureQueue(recognized) ==
    IF recognized # <<>> /\ recognized[1].confidence > 75 THEN <<recognized[1]>> ELSE <<>>
UploadQueue(recognized) == Filter(recognized, LAMBDA f : f.confidence >= 75)
ClassroomQueue(recognized) == recognized

\* the loop "for (const detected of recognized)": check today's entries, then mark
RECURSIVE MarkAll(_, _, _, _)
MarkAll(recs, queue, now, status) ==
    IF queue = <<>> THEN recs
    ELSE LET f == Head(queue)
             next == IF AlreadyMarked(recs, now, f.id) THEN recs
                     ELSE MarkAttendance(recs, f.id, now, status, f.confidence)
         IN  MarkAll(next, Tail(queue), now, status)

\* AttendanceMarking.captureAndRecognize
CaptureAndRecognize ==
    /\ started
    /\ \E recognized \in DetectClassroomFaces(students) :
          records' = MarkAll(records, CaptureQueue(recognized), clock, StatusAt(clock))
    /\ Len(records') <= MaxRecords
    /\ view' = NoView
    /\ UNCHANGED <<students, storedSettings, clock, tz, started, other,
                   faceDescriptors, registeredFaces>>
    /\ UNCHANGED sessionVars

\* AttendanceMarking.processUploadedImage
ProcessUploadedImage ==
    /\ started
    /\ \E recognized \in DetectClassroomFaces(students) :
          records' = MarkAll(records, UploadQueue(recognized), clock, StatusAt(clock))
    /\ Len(records') <= MaxRecords
    /\ view' = NoView
    /\ UNCHANGED <<students, storedSettings, clock, tz, started, other,
                   faceDescriptors, registeredFaces>>
    /\ UNCHANGED sessionVars

\* markedStudents of processClassroomAttendance: every recognized face, with the
\* status computed for this run
MarkedStudents(queue, status) == [i \in DOMAIN queue |-> [id |-> queue[i].id, status |-> status]]

NoReport == [made |-> FALSE]

\* ClassroomAttendance.processClassroomAttendance
ProcessClassroomAttendance ==
    /\ started
    /\ \E recognized \in DetectClassroomFaces(students) :
          /\ records' = MarkAll(records, ClassroomQueue(recognized), clock, StatusAt(clock))
          /\ view' = [screen |-> "ClassroomAttendance",
                      markedStudents |-> MarkedStudents(ClassroomQueue(recognized), StatusAt(clock)),
                      report |-> NoReport]
    /\ Len(records') <= MaxRecords
    /\ UNCHANGED <<students, storedSettings, clock, tz, started, other,
                   faceDescriptors, registeredFaces>>
    /\ UNCHANGED sessionVars

(***************************************************************************)
(* A marking run in a second tab.  The tabs share localStorage and nothing *)
(* else, and run in parallel: the run's reads and writes of the store      *)
(* interleave with the primary tab's handlers.                             *)
(***************************************************************************)
OtherBegin ==
    /\ other.pc = "idle"
    /\ Len(students) > 0
    /\ \E recognized \in DetectClassroomFaces(students) :
       \E queue \in {CaptureQueue(recognized), UploadQueue(recognized), ClassroomQueue(recognized)} :
          /\ queue # <<>>
          /\ other' = [pc |-> "check", now |-> clock, status |-> StatusAt(clock), queue |-> queue]
    /\ UNCHANGED <<students, records, storedSettings, clock, tz, started, view,
                   faceDescriptors, registeredFaces>>
    /\ UNCHANGED sessionVars

OtherAdvance(o) ==
    IF Len(o.queue) = 1 THEN Idle ELSE [o EXCEPT !.pc = "check", !.queue = Tail(o.queue)]

\* getTodayAttendance().find(...)
OtherCheck ==
    /\ other.pc = "check"
    /\ other' = IF AlreadyMarked(records, clock, other.queue[1].id)
                THEN OtherAdvance(other)
                ELSE [other EXCEPT !.pc = "write"]
    /\ UNCHANGED <<students, records, storedSettings, clock, tz, started, view,
                   faceDescriptors, registeredFaces>>
    /\ UNCHANGED sessionVars

\* database.markAttendance(attendanceRecord)
OtherWrite ==
    /\ other.pc = "write"
    /\ Len(records) < MaxRecords
    /\ records' = MarkAttendance(records, other.queue[1].id, other.now, other.status,
                                 other.queue[1].confidence)
    /\ other' = OtherAdvance(other)
    /\ UNCHANGED <<students, storedSettings, clock, tz, started, view,
                   faceDescriptors, registeredFaces>>
    /\ UNCHANGED sessionVars

(***************************************************************************)
(* Rates.  (x / n) * 100 as the exact pair num / den.                      *)
(***************************************************************************)
Rate(x, n) == [num |-> 100 * x, den |-> n]
ZeroRate == [num |-> 0, den |-> 1]
\* the guard "n > 0 ? (x / n) * 100 : 0"
GuardedRate(x, n) == IF n > 0 THEN Rate(x, n) ELSE ZeroRate

\* r is the number (a / b) * 100, b > 0
RateEquals(r, a, b) == r.den # 0 /\ r.num * b = 100 * a * r.den
RateIsZero(r) == r.den # 0 /\ r.num = 0
RateInPercentRange(r) == r.den > 0 /\ r.num >= 0 /\ r.num <= 100 * r.den

CountStatus(recs, st) == Count(recs, LAMBDA r : r.status = st)

Max(S) == CHOOSE m \in S : \A n \in S : n <= m

(***************************************************************************)
(* Dashboard.loadDashboardData and getDataSummary.                         *)
(***************************************************************************)
\* type: the userType prop
DashboardStats(studs, recs, now, type) ==
    LET today == GetTodayAttendance(recs, now)
        presentToday == CountStatus(today, "Present")
        lateToday == CountStatus(today, "Late")
    IN  IF type = "faculty"
        THEN [totalStudents |-> Len(studs),
              presentToday |-> presentToday,
              lateToday |-> lateToday,
              absentToday |-> Len(studs) - (presentToday + lateToday),
              attendanceRate |-> GuardedRate(presentToday, Len(studs))]
        ELSE [totalStudents |-> 1,
              presentToday |-> presentToday,
              lateToday |-> 0,
              absentToday |-> 0,
              attendanceRate |-> GuardedRate(CountStatus(recs, "Present"), Len(recs))]

OpenDashboard ==
    /\ started
    /\ \E type \in Roles :
          view' = [screen |-> "Dashboard", userType |-> type,
                   stats |-> DashboardStats(students, records, clock, type)]
    /\ UNCHANGED <<students, records, storedSettings, clock, tz, started, other,
                   faceDescriptors, registeredFaces>>
    /\ UNCHANGED sessionVars

GetDataSummary(studs, recs, now) ==
    LET today == GetTodayAttendance(recs, now)
    IN  [totalStudents |-> Len(studs),
         totalAttendanceRecords |-> Len(recs),
         todayRecords |-> Len(today),
         todayPresent |-> CountStatus(today, "Present"),
         todayLate |-> CountStatus(today, "Late"),
         todayAbsent |-> Len(studs) - Len(today)]

\* TestDataLoader.handleRefreshSummary
RefreshSummary ==
    /\ started
    /\ view' = [screen |-> "TestDataLoader", summary |-> GetDataSummary(students, records, clock)]
    /\ UNCHANGED <<students, records, storedSettings, clock, tz, started, other,
                   faceDescriptors, registeredFaces>>
    /\ UNCHANGED sessionVars

(***************************************************************************)
(* FacultyDashboard (daily view) and FacultyAnalytics (today's session).   *)
(***************************************************************************)
\* attendanceMap.set(record.studentId, record) over today's entries in stored
\* order: the entry stored last wins; "none" when the map has no entry
MapStatus(today, sid) ==
    LET idx == {i \in DOMAIN today : today[i].studentId = sid}
    IN  IF idx = {} THEN "none" ELSE today[Max(idx)].status

\* loadDailyAttendance / loadTodaySession: one row per person
StatusRows(studs, today) ==
    [i \in DOMAIN studs |->
        [id |-> studs[i].id,
         status |-> IF MapStatus(today, studs[i].id) = "none" THEN "Absent"
                    ELSE MapStatus(today, studs[i].id)]]

\* calculateStats
CalculateStats(rows) ==
    [total |-> Len(rows),
     present |-> CountStatus(rows, "Present"),
     late |-> CountStatus(rows, "Late"),
     absent |-> CountStatus(rows, "Absent"),
     percentage |-> GuardedRate(CountStatus(rows, "Present") + CountStatus(rows, "Late"), Len(rows))]

\* FacultyDashboard.loadData: the selected date is not passed on; the rows come
\* no alert() on the screen
NoAlert == [shown |-> FALSE]

\* from getTodayAttendance()
FacultyDashboardView(studs, recs, now, selectedDate) ==
    LET rows == StatusRows(studs, GetTodayAttendance(recs, now))
    IN  [screen |-> "FacultyDashboard", selectedDate |-> selectedDate,
         attendanceData |-> rows, stats |-> CalculateStats(rows), edited |-> <<>>,
         alert |-> NoAlert]

\* mount: selectedDate = new Date()
OpenFacultyDashboard ==
    /\ started
    /\ view' = FacultyDashboardView(students, records, clock, LocalDay(clock))
    /\ UNCHANGED <<students, records, storedSettings, clock, tz, started, other,
                   faceDescriptors, registeredFaces>>
    /\ UNCHANGED sessionVars

\* the days the date picker is moved to
PickableDays == (FirstDay - HistoryDays) .. (FirstDay + MaxDay)

\* setSelectedDate(...), then the effect on [selectedDate, viewMode] runs loadData
SelectDate ==
    /\ view.screen = "FacultyDashboard"
    /\ \E d \in PickableDays :
          view' = [FacultyDashboardView(students, records, clock, d) EXCEPT !.edited = view.edited]
    /\ UNCHANGED <<students, records, storedSettings, clock, tz, started, other,
                   faceDescriptors, registeredFaces>>
    /\ UNCHANGED sessionVars

\* FacultyAnalytics.calculateStats
SessionStats(rows) ==
    [total |-> Len(rows),
     present |-> CountStatus(rows, "Present"),
     late |-> CountStatus(rows, "Late"),
     absent |-> CountStatus(rows, "Absent"),
     attendanceRate |-> GuardedRate(CountStatus(rows, "Present") + CountStatus(rows, "Late"),
                                    Len(rows))]

\* FacultyAnalytics.loadTodaySession: people of role student only
FacultyAnalyticsView(studs, recs, now) ==
    LET rows == StatusRows(Filter(studs, LAMBDA s : s.role = "student"),
                           GetTodayAttendance(recs, now))
    IN  [screen |-> "FacultyAnalytics", sessionData |-> rows, stats |-> SessionStats(rows)]

OpenFacultyAnalytics ==
    /\ started
    /\ view' = FacultyAnalyticsView(students, records, clock)
    /\ UNCHANGED <<students, records, storedSettings, clock, tz, started, other,
                   faceDescriptors, registeredFaces>>
    /\ UNCHANGED sessionVars

MaxEdits == 1        \* statuses edited before one save

\* handleManualEdit: editedAttendance.set(studentId, status); a Map keeps its keys
\* in insertion order
HandleManualEdit ==
    /\ view.screen = "FacultyDashboard"
    /\ Len(view.edited) < MaxEdits
    /\ \E i \in DOMAIN view.attendanceData, status \in Statuses :
          /\ \A k \in DOMAIN view.edited : view.edited[k].id # view.attendanceData[i].id
          /\ view' = [view EXCEPT !.edited = Append(@, [id |-> view.attendanceData[i].id,
                                                         status |-> status]),
                                   !.alert = NoAlert]
    /\ UNCHANGED <<students, records, storedSettings, clock, tz, started, other,
                   faceDescriptors, registeredFaces>>
    /\ UNCHANGED sessionVars

\* the forEach of saveManualAttendance
RECURSIVE SaveEdits(_, _, _)
SaveEdits(recs, edited, now) ==
    IF edited = <<>> THEN recs
    ELSE LET e == Head(edited)
             next == IF ~AlreadyMarked(recs, now, e.id) /\ e.status # "Absent"
                     THEN MarkAttendance(recs, e.id, now, e.status, ManualConfidence)
                     ELSE recs
         IN  SaveEdits(next, Tail(edited), now)

\* updatedCount: one more with every markAttendance of the forEach
UpdatedCount(recs, edited, now) == Len(SaveEdits(recs, edited, now)) - Len(recs)

\* FacultyDashboard.saveManualAttendance, ending with loadData() and the alert
SaveManualAttendance ==
    /\ view.screen = "FacultyDashboard"
    /\ view.edited # <<>>
    /\ records' = SaveEdits(records, view.edited, clock)
    /\ Len(records') <= MaxRecords
    /\ view' = [FacultyDashboardView(students, records', clock, view.selectedDate)
                   EXCEPT !.alert = [shown |-> TRUE,
                                     updatedCount |-> UpdatedCount(records, view.edited, clock)]]
    /\ UNCHANGED <<students, storedSettings, clock, tz, started, other,
                   faceDescriptors, registeredFaces>>
    /\ UNCHANGED sessionVars

(***************************************************************************)
(* Settings.                                                               *)
(***************************************************************************)
DefaultLateThreshold == 15
\* the position the "Late Threshold" slider (5 .. 30) is moved to
LateThresholdChoices == {30}

\* mount: useState({..., lateThreshold: 15, ...}); the stored settings are not read
OpenSettings ==
    /\ started
    /\ view' = [screen |-> "Settings", lateThreshold |-> DefaultLateThreshold]
    /\ UNCHANGED <<students, records, storedSettings, clock, tz, started, other,
                   faceDescriptors, registeredFaces>>
    /\ UNCHANGED sessionVars

\* a setting change that reclassifies the stored entries under the new grace period
HandleSettingChangeReclassifying ==
    /\ view.screen = "Settings"
    /\ \E g \in LateThresholdChoices :
          /\ view' = [view EXCEPT !.lateThreshold = g]
          /\ storedSettings' = g
          /\ records' = [i \in DOMAIN records |->
                           [records[i] EXCEPT !.status =
                               IF MinuteOfDay(records[i].timestamp) > 9 * 60 + g
                               THEN "Late" ELSE "Present"]]
    /\ UNCHANGED <<students, clock, tz, started, other, faceDescriptors, registeredFaces>>
    /\ UNCHANGED sessionVars

\* handleSettingChange('lateThreshold', g)
HandleSettingChange ==
    /\ view.screen = "Settings"
    /\ \E g \in LateThresholdChoices :
          /\ view' = [view EXCEPT !.lateThreshold = g]
          /\ storedSettings' = g
    /\ UNCHANGED <<students, records, clock, tz, started, other, faceDescriptors, registeredFaces>>
    /\ UNCHANGED sessionVars

(***************************************************************************)
(* ClassroomAttendance: the statistics of the PDF report and CSV export.   *)
(***************************************************************************)
\* reportData.students and reportData.statistics of generateReport / exportCSV
ReportData(studs, markedStudents) ==
    [made |-> TRUE,
     students |-> [i \in DOMAIN studs |->
                     LET idx == {k \in DOMAIN markedStudents : markedStudents[k].id = studs[i].id}
                     IN  [id |-> studs[i].id,
                          status |-> IF idx = {} THEN "Absent"
                                     ELSE markedStudents[CHOOSE k \in idx : \A j \in idx : k <= j].status]],
     statistics |-> [totalStudents |-> Len(studs),
                     present |-> CountStatus(markedStudents, "Present"),
                     absent |-> Len(studs) - Len(markedStudents),
                     late |-> CountStatus(markedStudents, "Late"),
                     attendancePercentage |-> Rate(Len(markedStudents), Len(studs))]]

\* ClassroomAttendance.generateReport
GenerateReport ==
    /\ view.screen = "ClassroomAttendance"
    /\ view' = [view EXCEPT !.report = ReportData(students, view.markedStudents)]
    /\ UNCHANGED <<students, records, storedSettings, clock, tz, started, other,
                   faceDescriptors, registeredFaces>>
    /\ UNCHANGED sessionVars

\* ClassroomAttendance.exportCSV
ExportCSV ==
    /\ view.screen = "ClassroomAttendance"
    /\ view' = [view EXCEPT !.report = ReportData(students, view.markedStudents)]
    /\ UNCHANGED <<students, records, storedSettings, clock, tz, started, other,
                   faceDescriptors, registeredFaces>>
    /\ UNCHANGED sessionVars

(***************************************************************************)
(* Analytics.loadAnalyticsData, selectedPeriod = 'week'.                   *)
(***************************************************************************)
\* the keys of a Map in insertion order: each key where it first occurs
RECURSIVE FirstOccurrences(_)
FirstOccurrences(keys) ==
    IF Len(keys) = 0 THEN <<>>
    ELSE LET before == FirstOccurrences(SubSeq(keys, 1, Len(keys) - 1))
             key == keys[Len(keys)]
         IN  IF \E i \in DOMAIN before : before[i] = key THEN before ELSE Append(before, key)

PeriodDays == 7
StatDays == 7

\* one row of dailyStats: the row is labelled with the local date of now - i days
\* and filled with the entries whose UTC date equals the UTC date of now - i days
DailyStatsRow(studs, recs, now, zone, i) ==
    LET dayAttendance == Filter(recs, LAMBDA r : UtcDay(r.timestamp, zone)
                                                   = UtcDay(now - i * DaySec, zone))
        present == CountStatus(dayAttendance, "Present")
        late == CountStatus(dayAttendance, "Late")
        rest == Len(studs) - (present + late)
    IN  [date |-> LocalDay(now - i * DaySec),
         present |-> present,
         late |-> late,
         absent |-> IF rest > 0 THEN rest ELSE 0]

\* departmentStats: the departments in the insertion order of departmentMap
DepartmentStats(studs, periodAttendance) ==
    LET depts == FirstOccurrences([i \in 1 .. Len(studs) |-> studs[i].department])
    IN  [k \in 1 .. Len(depts) |->
            LET members == Filter(studs, LAMBDA s : s.department = depts[k])
                total == Count(periodAttendance,
                               LAMBDA a : \E i \in DOMAIN members : members[i].id = a.studentId)
            IN  [department |-> depts[k],
                 rate |-> GuardedRate(total, Len(members)),
                 count |-> total]]

AnalyticsView(studs, recs, now, zone) ==
    LET periodAttendance == Filter(recs, LAMBDA r : r.timestamp >= now - PeriodDays * DaySec)
        totalAttendance == Len(periodAttendance)
        presentCount == CountStatus(periodAttendance, "Present")
    IN  [screen |-> "Analytics",
         totalAttendance |-> totalAttendance,
         averageAttendance |-> GuardedRate(totalAttendance, Len(studs)),
         punctualityRate |-> GuardedRate(presentCount, totalAttendance),
         departmentStats |-> DepartmentStats(studs, periodAttendance),
         dailyStats |-> [k \in 1 .. StatDays |->
                            DailyStatsRow(studs, recs, now, zone, StatDays - k)]]

OpenAnalytics ==
    /\ started
    /\ view' = AnalyticsView(students, records, clock, tz)
    /\ UNCHANGED <<students, records, storedSettings, clock, tz, started, other,
                   faceDescriptors, registeredFaces>>
    /\ UNCHANGED sessionVars

(***************************************************************************)
(* StudentAnalytics: the statistics of students[0].                        *)
(***************************************************************************)
RecordsOf(recs, sid) == Filter(recs, LAMBDA r : r.studentId = sid)

\* calculateDailyStats
CalculateDailyStats(recs) ==
    LET totalDays == Cardinality({LocalDay(recs[i].timestamp) : i \in DOMAIN recs})
        present == CountStatus(recs, "Present")
        late == CountStatus(recs, "Late")
        rest == totalDays - present - late
    IN  [totalDays |-> totalDays,
         present |-> present,
         late |-> late,
         absent |-> IF rest > 0 THEN rest ELSE 0,
         attendanceRate |-> GuardedRate(present, totalDays)]

\* getDayAttendance: "null" when the day has no entry
GetDayAttendance(attendanceRecords, day) ==
    LET dayRecords == Filter(attendanceRecords, LAMBDA r : LocalDay(r.timestamp) = day)
    IN  IF Len(dayRecords) = 0 THEN "null" ELSE dayRecords[Len(dayRecords)].status

\* the calendar cells rendered from getDayAttendance
Calendar(attendanceRecords) == [d \in PickableDays |-> GetDayAttendance(attendanceRecords, d)]

\* the calendar of the model: day 0 is Sunday 1 March 2026, and the days
\* modelled lie in February and March of that year
DayOfWeek(day) == day % 7
MonthOf(day) == IF day < 0 THEN 2 ELSE 3

WeeksShown == 8
MonthsShown == 6

\* .slice(-n)
LastN(rows, n) == IF Len(rows) <= n THEN rows ELSE SubSeq(rows, Len(rows) - n + 1, Len(rows))

\* .reverse()
Reverse(rows) == [k \in 1 .. Len(rows) |-> rows[Len(rows) + 1 - k]]

\* weekStart.setDate(date.getDate() - date.getDay()) keeps the time of day;
\* weekStart.toISOString().split('T')[0] is the UTC date of that instant
WeekKey(ts, zone) == UtcDay(ts - DayOfWeek(LocalDay(ts)) * DaySec, zone)

\* new Date(week).toLocaleDateString(...): the local date of UTC midnight
WeekLabel(weekKey, zone) == LocalDay(weekKey * DaySec + zone)

\* calculateWeeklyStats in the oldest-first order of the weekMap entries
WeekMapEntries(recs, zone) ==
    LET keys == FirstOccurrences([i \in 1 .. Len(recs) |-> WeekKey(recs[i].timestamp, zone)])
    IN  [k \in 1 .. Len(keys) |->
            LET weekRecords == Filter(recs, LAMBDA r : WeekKey(r.timestamp, zone) = keys[k])
            IN  [week |-> WeekLabel(keys[k], zone),
                 present |-> CountStatus(weekRecords, "Present"),
                 late |-> CountStatus(weekRecords, "Late"),
                 absent |-> CountStatus(weekRecords, "Absent"),
                 total |-> Len(weekRecords)]]

CalculateWeeklyStats(recs, zone) == Reverse(LastN(WeekMapEntries(recs, zone), WeeksShown))

\* calculateMonthlyStats
CalculateMonthlyStats(recs) ==
    LET keys == FirstOccurrences([i \in 1 .. Len(recs) |-> MonthOf(LocalDay(recs[i].timestamp))])
        rows == [k \in 1 .. Len(keys) |->
                    LET monthRecords ==
                            Filter(recs, LAMBDA r : MonthOf(LocalDay(r.timestamp)) = keys[k])
                    IN  [month |-> keys[k],
                         present |-> CountStatus(monthRecords, "Present"),
                         late |-> CountStatus(monthRecords, "Late"),
                         absent |-> CountStatus(monthRecords, "Absent"),
                         total |-> Len(monthRecords),
                         attendanceRate |-> GuardedRate(CountStatus(monthRecords, "Present"),
                                                        Len(monthRecords))]]
    IN  Reverse(LastN(rows, MonthsShown))

\* loadStudentData for students[0]; the initial component state stays when no
\* person is stored
StudentAnalyticsView(studs, recs, zone) ==
    IF Len(studs) > 0
    THEN LET studentRecords == RecordsOf(recs, studs[1].id)
         IN  [screen |-> "StudentAnalytics",
              studentData |-> studs[1].id,
              attendanceRecords |-> studentRecords,
              dailyStats |-> CalculateDailyStats(studentRecords),
              weeklyData |-> CalculateWeeklyStats(studentRecords, zone),
              monthlyData |-> CalculateMonthlyStats(studentRecords),
              calendar |-> Calendar(studentRecords)]
    ELSE [screen |-> "StudentAnalytics",
          studentData |-> 0,
          attendanceRecords |-> <<>>,
          dailyStats |-> [totalDays |-> 0, present |-> 0, late |-> 0, absent |-> 0,
                          attendanceRate |-> ZeroRate],
          weeklyData |-> <<>>,
          monthlyData |-> <<>>,
          calendar |-> Calendar(<<>>)]

OpenStudentAnalytics ==
    /\ started
    /\ view' = StudentAnalyticsView(students, records, tz)
    /\ UNCHANGED <<students, records, storedSettings, clock, tz, started, other,
                   faceDescriptors, registeredFaces>>
    /\ UNCHANGED sessionVars

(***************************************************************************)
(* StudentMonitoring.calculateStudentStats.                                *)
(***************************************************************************)
TrendWindow == 7
TrendMargin == 10

\* Math.floor((now.getTime() - new Date(r.timestamp).getTime()) / (1000 * 60 * 60 * 24))
DaysAgo(now, ts) == (now - ts) \div DaySec

Last7Days(studentRecords, now) ==
    Filter(studentRecords, LAMBDA r : DaysAgo(now, r.timestamp) <= TrendWindow)
Previous7Days(studentRecords, now) ==
    Filter(studentRecords, LAMBDA r : /\ DaysAgo(now, r.timestamp) > TrendWindow
                                      /\ DaysAgo(now, r.timestamp) <= 2 * TrendWindow)

NonAbsent(recs) == Count(recs, LAMBDA r : r.status # "Absent")

\* last7Percentage / previous7Percentage
WindowPercentage(window) == GuardedRate(NonAbsent(window), Len(window))

\* a > b + k for rates a, b with positive denominators
RateExceedsBy(a, b, k) == a.num * b.den > b.num * a.den + k * a.den * b.den

\* a trend that already changes at a difference of exactly the margin
TrendInclusive(last7Percentage, previous7Percentage) ==
    LET first == IF ~RateExceedsBy(previous7Percentage, last7Percentage, -TrendMargin)
                 THEN "improving" ELSE "stable"
    IN  IF ~RateExceedsBy(last7Percentage, previous7Percentage, -TrendMargin)
        THEN "declining" ELSE first

\* let trend = 'stable'; if (last7 > previous7 + 10) ...; if (last7 < previous7 - 10) ...
Trend(last7Percentage, previous7Percentage) ==
    LET first == IF RateExceedsBy(last7Percentage, previous7Percentage, TrendMargin)
                 THEN "improving" ELSE "stable"
    IN  IF RateExceedsBy(previous7Percentage, last7Percentage, TrendMargin)
        THEN "declining" ELSE first

\* [...].sort((a, b) => b.timestamp - a.timestamp): stable, newest first
RECURSIVE InsertDesc(_, _)
InsertDesc(sorted, r) ==
    IF sorted = <<>> THEN <<r>>
    ELSE IF Head(sorted).timestamp >= r.timestamp
         THEN <<Head(sorted)>> \o InsertDesc(Tail(sorted), r)
         ELSE <<r>> \o sorted

\* the entries in the order in which the store holds them
StoredOrder(recs) == recs

RECURSIVE SortDesc(_)
SortDesc(recs) ==
    IF recs = <<>> THEN <<>>
    ELSE InsertDesc(SortDesc(SubSeq(recs, 1, Len(recs) - 1)), recs[Len(recs)])

\* the number of Absent entries anywhere in the list
AllAbsences(sorted) == Len(SelectSeq(sorted, LAMBDA r : r.status = "Absent"))

\* the number of leading Absent entries
RECURSIVE LeadingAbsences(_)
LeadingAbsences(sorted) ==
    IF sorted = <<>> \/ Head(sorted).status # "Absent" THEN 0
    ELSE 1 + LeadingAbsences(Tail(sorted))

\* -1 stands for null
LastAttended(studentRecords) ==
    LET attendedRecords == SortDesc(Filter(studentRecords, LAMBDA r : r.status # "Absent"))
    IN  IF Len(attendedRecords) > 0 THEN attendedRecords[1].timestamp ELSE -1

\* weeklyAttendance[6 - i] for daysAgo = i
WeeklyAttendance(studentRecords, now) ==
    [k \in 1 .. 7 |->
        IF NonAbsent(Filter(studentRecords, LAMBDA r : DaysAgo(now, r.timestamp) = 7 - k)) > 0
        THEN 1 ELSE 0]

StudentStats(sid, recs, now) ==
    LET studentRecords == RecordsOf(recs, sid)
        totalClasses == Len(studentRecords)
        present == CountStatus(studentRecords, "Present")
        late == CountStatus(studentRecords, "Late")
    IN  [student |-> sid,
         totalClasses |-> totalClasses,
         attended |-> present + late,
         present |-> present,
         late |-> late,
         absent |-> CountStatus(studentRecords, "Absent"),
         attendancePercentage |-> GuardedRate(present + late, totalClasses),
         trend |-> Trend(WindowPercentage(Last7Days(studentRecords, now)),
                         WindowPercentage(Previous7Days(studentRecords, now))),
         lastAttended |-> LastAttended(studentRecords),
         consecutiveAbsences |-> LeadingAbsences(SortDesc(studentRecords)),
         weeklyAttendance |-> WeeklyAttendance(studentRecords, now)]

CalculateStudentStats(studs, recs, now) ==
    [i \in DOMAIN studs |-> StudentStats(studs[i].id, recs, now)]

\* the comparator of getFilteredAndSortedStudents is negative: a goes before b.
\* Sorting by name is left out, names not being part of the person records here.
SortsBefore(a, b, sortBy) ==
    IF sortBy = "attendance"
    THEN RateExceedsBy(a.attendancePercentage, b.attendancePercentage, 0)
    ELSE a.consecutiveAbsences > b.consecutiveAbsences

RECURSIVE InsertStat(_, _, _)
InsertStat(sorted, stat, sortBy) ==
    IF sorted = <<>> THEN <<stat>>
    ELSE IF SortsBefore(stat, Head(sorted), sortBy) THEN <<stat>> \o sorted
         ELSE <<Head(sorted)>> \o InsertStat(Tail(sorted), stat, sortBy)

\* getFilteredAndSortedStudents with an empty search and department 'All':
\* filtered is the studentStats array itself, and filtered.sort(...) sorts it in
\* place (a stable sort); the array returned and the state array are one array
RECURSIVE GetFilteredAndSortedStudents(_, _)
GetFilteredAndSortedStudents(studentStats, sortBy) ==
    IF studentStats = <<>> THEN <<>>
    ELSE InsertStat(GetFilteredAndSortedStudents(SubSeq(studentStats, 1, Len(studentStats) - 1),
                                                 sortBy),
                    studentStats[Len(studentStats)], sortBy)

DefaultSortBy == "attendance"

\* StudentMonitoring.loadStudentData, and the render that follows setStudentStats
StudentMonitoringView(studs, recs, now) ==
    [screen |-> "StudentMonitoring",
     sortBy |-> DefaultSortBy,
     studentStats |->
        GetFilteredAndSortedStudents(
            CalculateStudentStats(Filter(studs, LAMBDA s : s.role = "student"), recs, now),
            DefaultSortBy)]

OpenStudentMonitoring ==
    /\ started
    /\ view' = StudentMonitoringView(students, records, clock)
    /\ UNCHANGED <<students, records, storedSettings, clock, tz, started, other,
                   faceDescriptors, registeredFaces>>
    /\ UNCHANGED sessionVars

\* the sort selector's onChange: setSortBy, and the render that follows
SetSortBy ==
    /\ view.screen = "StudentMonitoring"
    /\ \E sortBy \in {"attendance", "absences"} \ {view.sortBy} :
          view' = [view EXCEPT !.sortBy = sortBy,
                               !.studentStats = GetFilteredAndSortedStudents(@, sortBy)]
    /\ UNCHANGED <<students, records, storedSettings, clock, tz, started, other,
                   faceDescriptors, registeredFaces>>
    /\ UNCHANGED sessionVars

\* time passes
Tick ==
    /\ \E t \in Instants : t > clock /\ clock' = t
    /\ UNCHANGED <<students, records, storedSettings, tz, started, view, other,
                   faceDescriptors, registeredFaces>>
    /\ UNCHANGED sessionVars

Next ==
    \/ AppStart
    \/ RegisterStudent
    \/ DeleteStudent
    \/ CaptureAndRecognize
    \/ ProcessUploadedImage
    \/ ProcessClassroomAttendance
    \/ GenerateReport
    \/ ExportCSV
    \/ OpenDashboard
    \/ RefreshSummary
    \/ OpenFacultyDashboard
    \/ SelectDate
    \/ HandleManualEdit
    \/ SaveManualAttendance
    \/ OpenFacultyAnalytics
    \/ OpenAnalytics
    \/ OpenStudentAnalytics
    \/ OpenStudentMonitoring
    \/ SetSortBy
    \/ OpenSettings
    \/ HandleSettingChange
    \/ Tick

Spec == Init /\ [][Next]_vars

\* two tabs on the same store: a marking run of the second tab interleaves with
\* the primary tab's marking flow and screens
NextTabs ==
    \/ AppStart
    \/ DeleteStudent
    \/ CaptureAndRecognize
    \/ OtherBegin
    \/ OtherCheck
    \/ OtherWrite
    \/ OpenFacultyDashboard
    \/ OpenFacultyAnalytics
    \/ OpenStudentAnalytics
    \/ OpenStudentMonitoring
    \/ OpenAnalytics
    \/ Tick

SpecTabs == Init /\ [][NextTabs]_vars

(***************************************************************************)
(* calculateStudentStats as a function of the entries it is given: any     *)
(* collection of the AttendanceRecord type, explicit Absent entries        *)
(* included, for one person.                                               *)
(***************************************************************************)
MaxWindowEntries == 3   \* attended and absent entries per trend window

\* k entries of person sid, aged alternately youngAge and oldAge days; attended
\* entries alternate Present and Late
RECURSIVE EntriesAged(_, _, _, _, _, _)
EntriesAged(sid, k, now, youngAge, oldAge, attended) ==
    IF k = 0 THEN <<>>
    ELSE Append(EntriesAged(sid, k - 1, now, youngAge, oldAge, attended),
                [studentId |-> sid,
                 timestamp |-> now - (IF k % 2 = 1 THEN youngAge ELSE oldAge) * DaySec,
                 status |-> IF ~attended THEN "Absent"
                            ELSE IF k % 2 = 1 THEN "Present" ELSE "Late",
                 confidence |-> 90])

\* pa attended and pb absent entries 8 to 14 days old, then ra attended and rb
\* absent entries 0 to 7 days old
TrendEntries(sid, ra, rb, pa, pb, now) ==
    EntriesAged(sid, pa, now, 2 * TrendWindow, TrendWindow + 1, TRUE)
    \o EntriesAged(sid, pb, now, TrendWindow + 1, 2 * TrendWindow, FALSE)
    \o EntriesAged(sid, ra, now, 0, TrendWindow, TRUE)
    \o EntriesAged(sid, rb, now, TrendWindow, 0, FALSE)

InitStats ==
    /\ students = <<[id |-> 1, role |-> "student", department |-> RosterDepartment]>>
    /\ clock \in Instants
    /\ \E ra \in 0 .. MaxWindowEntries, rb \in 0 .. MaxWindowEntries,
          pa \in 0 .. MaxWindowEntries, pb \in 0 .. MaxWindowEntries :
          records = TrendEntries(1, ra, rb, pa, pb, clock)
    /\ storedSettings = 0
    /\ tz \in TimeZones
    /\ started = TRUE
    /\ view = NoView
    /\ other = Idle
    /\ faceDescriptors = {}
    /\ registeredFaces = {}
    /\ SessionInit

NextStats ==
    \/ OpenStudentMonitoring
    \/ OpenStudentAnalytics

SpecStats == InitStats /\ [][NextStats]_vars

(***************************************************************************)
(* Statistics over arbitrary attendance histories of one person: every      *)
(* sequence of at most MaxHistoryEntries entries of the AttendanceRecord    *)
(* type, in every storage order, with ages on both sides of the window      *)
(* limits of calculateStudentStats; the person is either still stored or    *)
(* has been deleted after the entries were written.                         *)
(***************************************************************************)
MaxHistoryEntries == 3

EntryAges ==
    {0, TrendWindow * DaySec, TrendWindow * DaySec + DaySec \div 2,
     (TrendWindow + 1) * DaySec, 2 * TrendWindow * DaySec, (2 * TrendWindow + 1) * DaySec}

HistoryEntries(sid, now) ==
    {[studentId |-> sid, timestamp |-> now - age, status |-> st, confidence |-> 90] :
        age \in EntryAges, st \in Statuses}

InitHistory ==
    /\ students \in {<<>>, <<[id |-> 1, role |-> "student", department |-> RosterDepartment]>>}
    /\ clock \in Instants
    /\ records \in SeqsUpTo(HistoryEntries(1, clock), MaxHistoryEntries)
    /\ storedSettings = 0
    /\ tz \in TimeZones
    /\ started = TRUE
    /\ view = NoView
    /\ other = Idle
    /\ faceDescriptors = {}
    /\ registeredFaces = {}
    /\ SessionInit

NextHistory ==
    \/ OpenStudentMonitoring
    \/ SetSortBy
    \/ OpenStudentAnalytics

SpecHistory == InitHistory /\ [][NextHistory]_vars

(***************************************************************************)
(* Enrollment: the person records with the fields that say who a person is *)
(* (rollNo), when the record was created (createdAt) and whether a face    *)
(* was enrolled (faceRegistered), through the Signup and StudentManagement *)
(* forms and both test-data loaders, together with the signatures the two  *)
(* recognizer singletons hold in the memory of the page.                   *)
(***************************************************************************)
MaxPeople == 2 * RosterSize

\* saveStudent / addStudent: {...student, id: generateId(), createdAt: new Date()}
SaveStudentData(studs, id, now, data) ==
    Append(studs, [id |-> id, role |-> data.role, rollNo |-> data.rollNo,
                   faceRegistered |-> data.faceRegistered, createdAt |-> now])

\* testStudents.forEach(student => database.addStudent(student)): the roster
\* entry k has roll number k, role student and faceRegistered true
RECURSIVE AddTestStudents(_, _, _, _)
AddTestStudents(studs, ids, now, k) ==
    IF k > Len(ids) THEN studs
    ELSE AddTestStudents(
            SaveStudentData(studs, ids[k], now,
                            [role |-> "student", rollNo |-> k, faceRegistered |-> TRUE]),
            ids, now, k + 1)

\* the outcome of the generator's draws for the past days that is followed
\* here: no roster person has an entry on a past day
QuietHistories ==
    {[d \in 1 .. HistoryDays |-> [i \in 1 .. RosterSize |-> [status |-> "none", off |-> 0]]]}

\* the roster and its generated entries, as both loaders write them
WriteTestData ==
    \E ids \in RosterIds(students, records, RosterSize) :
    \E hist \in QuietHistories :
    \E pOff \in TodayPresentOffsets, lOff \in TodayLateOffsets :
       LET today == LocalDay(clock)
           past == GenPast(records, ids, today, hist, HistoryDays, 1)
       IN  /\ \A k \in DOMAIN ids : ids[k] <= MaxPeople
           /\ students' = AddTestStudents(students, ids, clock, 1)
           /\ records' = GenToday(past, ids, today, pOff, lOff, 1)
           /\ Len(records') <= MaxRecords

InitPeople ==
    /\ students = <<>>
    /\ records = <<>>
    /\ storedSettings = 0
    /\ clock \in Instants
    /\ tz \in TimeZones
    /\ started = FALSE
    /\ view = NoView
    /\ other = Idle
    /\ faceDescriptors = {}
    /\ registeredFaces = {}
    /\ SessionInit

\* a page load: the recognizer singletons are constructed anew, and App's mount
\* effect runs initializeTestData(), which loads the roster when no person is
\* stored
LoadPage ==
    /\ started' = TRUE
    /\ view' = NoView
    /\ faceDescriptors' = {}
    /\ registeredFaces' = {}
    /\ IF Len(students) = 0 THEN WriteTestData ELSE UNCHANGED <<students, records>>
    /\ UNCHANGED <<storedSettings, clock, tz, other>>
    /\ UNCHANGED sessionVars

\* TestDataLoader.handleLoadData: loadTestData(), then setSummary(getDataSummary())
LoadTestData ==
    /\ started
    /\ Len(students) + RosterSize <= MaxPeople
    /\ WriteTestData
    /\ view' = [screen |-> "TestDataLoader",
                summary |-> GetDataSummary(students', records', clock)]
    /\ UNCHANGED <<storedSettings, clock, tz, started, other, faceDescriptors, registeredFaces>>
    /\ UNCHANGED sessionVars

\* the Signup route is mounted: role student, empty fields, no face registered
OpenSignup ==
    /\ started
    /\ view' = [screen |-> "Signup", role |-> "student", rollNo |-> 0, faceRegistered |-> FALSE]
    /\ UNCHANGED <<students, records, storedSettings, clock, tz, started, other,
                   faceDescriptors, registeredFaces>>
    /\ UNCHANGED sessionVars

\* the account type buttons: role set, rollNo and image cleared, setFaceRegistered(false)
SignupSelectRole ==
    /\ view.screen = "Signup"
    /\ \E role \in Roles :
          view' = [screen |-> "Signup", role |-> role, rollNo |-> 0, faceRegistered |-> FALSE]
    /\ UNCHANGED <<students, records, storedSettings, clock, tz, started, other,
                   faceDescriptors, registeredFaces>>
    /\ UNCHANGED sessionVars

\* the roll number field's onChange: only formData.rollNo changes
SignupSetRollNo ==
    /\ view.screen = "Signup"
    /\ \E rollNo \in RollNos : view' = [view EXCEPT !.rollNo = rollNo]
    /\ UNCHANGED <<students, records, storedSettings, clock, tz, started, other,
                   faceDescriptors, registeredFaces>>
    /\ UNCHANGED sessionVars

\* Signup.handleFaceRegistration with a captured photo:
\* facialRecognition.registerStudentFace(formData.rollNo, ...) rejects an empty
\* roll number, finds no face, or stores the signature under the roll number
SignupRegisterFace ==
    /\ view.screen = "Signup"
    /\ view.role = "student"
    /\ \E faceFound \in BOOLEAN :
          IF view.rollNo # 0 /\ faceFound
          THEN /\ faceDescriptors' = faceDescriptors \cup {view.rollNo}
               /\ view' = [view EXCEPT !.faceRegistered = TRUE]
          ELSE UNCHANGED <<faceDescriptors, view>>
    /\ UNCHANGED <<students, records, storedSettings, clock, tz, started, other, registeredFaces>>
    /\ UNCHANGED sessionVars

\* Signup.handleSubmit: a student needs faceRegistered, the required fields are
\* filled; database.saveStudent(userData), then navigate('/login')
SignupSubmit ==
    /\ view.screen = "Signup"
    /\ view.rollNo # 0
    /\ view.role = "student" => view.faceRegistered
    /\ Len(students) < MaxPeople
    /\ \E id \in GenerateId(students, records) :
          /\ id <= MaxPeople
          /\ students' = SaveStudentData(students, id, clock,
                                         [role |-> view.role, rollNo |-> view.rollNo,
                                          faceRegistered |-> (view.role = "student")])
    /\ view' = NoView
    /\ UNCHANGED <<records, storedSettings, clock, tz, started, other,
                   faceDescriptors, registeredFaces>>
    /\ UNCHANGED sessionVars

\* the StudentManagement route is mounted with an empty form
OpenStudentManagement ==
    /\ started
    /\ view' = [screen |-> "StudentManagement", rollNo |-> 0, faceRegistered |-> FALSE]
    /\ UNCHANGED <<students, records, storedSettings, clock, tz, started, other,
                   faceDescriptors, registeredFaces>>
    /\ UNCHANGED sessionVars

ManagementSetRollNo ==
    /\ view.screen = "StudentManagement"
    /\ \E rollNo \in RollNos : view' = [view EXCEPT !.rollNo = rollNo]
    /\ UNCHANGED <<students, records, storedSettings, clock, tz, started, other,
                   faceDescriptors, registeredFaces>>
    /\ UNCHANGED sessionVars

\* StudentManagement.handleFaceRegistration with a captured photo:
\* FaceRecognitionService.getInstance().registerFace(formData.rollNo, ...)
ManagementRegisterFace ==
    /\ view.screen = "StudentManagement"
    /\ IF view.rollNo # 0
       THEN /\ registeredFaces' = registeredFaces \cup {view.rollNo}
            /\ view' = [view EXCEPT !.faceRegistered = TRUE]
       ELSE UNCHANGED <<registeredFaces, view>>
    /\ UNCHANGED <<students, records, storedSettings, clock, tz, started, other, faceDescriptors>>
    /\ UNCHANGED sessionVars

\* StudentManagement.handleSubmit: database.addStudent(studentData), form reset
ManagementSubmit ==
    /\ view.screen = "StudentManagement"
    /\ view.rollNo # 0
    /\ view.faceRegistered
    /\ Len(students) < MaxPeople
    /\ \E id \in GenerateId(students, records) :
          /\ id <= MaxPeople
          /\ students' = SaveStudentData(students, id, clock,
                                         [role |-> "student", rollNo |-> view.rollNo,
                                          faceRegistered |-> TRUE])
    /\ view' = [screen |-> "StudentManagement", rollNo |-> 0, faceRegistered |-> FALSE]
    /\ UNCHANGED <<records, storedSettings, clock, tz, started, other,
                   faceDescriptors, registeredFaces>>
    /\ UNCHANGED sessionVars

\* StudentManagement.deleteStudent, then loadStudents(); the form is left as it is
ManagementDelete ==
    /\ view.screen = "StudentManagement"
    /\ \E i \in DOMAIN students :
          students' = DeleteStudentFrom(students, students[i].id)
    /\ UNCHANGED <<records, storedSettings, clock, tz, started, view, other,
                   faceDescriptors, registeredFaces>>
    /\ UNCHANGED sessionVars

NextPeople ==
    \/ LoadPage
    \/ LoadTestData
    \/ OpenSignup
    \/ SignupSelectRole
    \/ SignupSetRollNo
    \/ SignupRegisterFace
    \/ SignupSubmit
    \/ OpenStudentManagement
    \/ ManagementSetRollNo
    \/ ManagementRegisterFace
    \/ ManagementSubmit
    \/ ManagementDelete

SpecPeople == InitPeople /\ [][NextPeople]_vars

(***************************************************************************)
(* The person operations of DatabaseService called with every input of the *)
(* Student type: saveStudent, updateStudent (which no screen calls) and     *)
(* deleteStudent.                                                          *)
(***************************************************************************)
\* updateStudent: the record at findIndex(s => s.id === studentData.id) is
\* replaced by studentData
UpdateStudent(studs, studentData) ==
    LET found == {i \in DOMAIN studs : studs[i].id = studentData.id}
    IN  IF found = {} THEN studs
        ELSE [studs EXCEPT ![CHOOSE i \in found : \A k \in found : i <= k] = studentData]

\* the values of the Student type that are passed in
StudentData == [role : Roles, rollNo : RollNos, faceRegistered : BOOLEAN]
StudentValues ==
    [id : 1 .. MaxIds, role : Roles, rollNo : RollNos, faceRegistered : BOOLEAN,
     createdAt : Instants]

InitStore ==
    /\ students = <<>>
    /\ records = <<>>
    /\ storedSettings = 0
    /\ clock \in Instants
    /\ tz \in TimeZones
    /\ started = TRUE
    /\ view = NoView
    /\ other = Idle
    /\ faceDescriptors = {}
    /\ registeredFaces = {}
    /\ SessionInit

StoreSaveStudent ==
    /\ Len(students) < MaxStudents
    /\ \E data \in StudentData, id \in GenerateId(students, records) :
          /\ id <= MaxIds
          /\ students' = SaveStudentData(students, id, clock, data)
    /\ UNCHANGED <<records, storedSettings, clock, tz, started, view, other,
                   faceDescriptors, registeredFaces>>
    /\ UNCHANGED sessionVars

StoreUpdateStudent ==
    /\ \E studentData \in StudentValues : students' = UpdateStudent(students, studentData)
    /\ UNCHANGED <<records, storedSettings, clock, tz, started, view, other,
                   faceDescriptors, registeredFaces>>
    /\ UNCHANGED sessionVars

StoreDeleteStudent ==
    /\ \E id \in 1 .. MaxIds : students' = DeleteStudentFrom(students, id)
    /\ UNCHANGED <<records, storedSettings, clock, tz, started, view, other,
                   faceDescriptors, registeredFaces>>
    /\ UNCHANGED sessionVars

NextStore ==
    \/ StoreSaveStudent
    \/ StoreUpdateStudent
    \/ StoreDeleteStudent
    \/ Tick

SpecStore == InitStore /\ [][NextStore]_vars

(***************************************************************************)
(* One tab that only marks: the three recognition flows and the faculty's  *)
(* manual edits, on the store the application start leaves.                *)
(***************************************************************************)
NextMarking ==
    \/ AppStart
    \/ CaptureAndRecognize
    \/ ProcessUploadedImage
    \/ ProcessClassroomAttendance
    \/ OpenFacultyDashboard
    \/ HandleManualEdit
    \/ SaveManualAttendance
    \/ Tick

SpecMarking == Init /\ [][NextMarking]_vars

(***************************************************************************)
(* DatabaseService calls made by two open tabs.  A call reads its          *)
(* collection with getItem, pushes onto the parsed copy and writes the     *)
(* copy back with setItem; the tabs run in parallel and share nothing but  *)
(* localStorage, so another tab's getItem or setItem can fall between the  *)
(* two.                                                                    *)
(***************************************************************************)
\* the ids of saveStudent calls that have read and not returned
PendingIds == {calls[t].item.id : t \in {u \in Tabs : calls[u].pc # "idle" /\ calls[u].key = "students"}}

\* generateId in a tab: an id neither stored nor drawn by the other tab's call
GenerateIdBeside(pending) ==
    LET used == UsedIds(students, records) \cup pending
        fresh == CHOOSE n \in 1 .. (Cardinality(used) + 1) : n \notin used
    IN  {fresh}

\* markAttendance: const records = this.getAttendanceRecords()
MarkAttendanceRead(t) ==
    /\ calls[t].pc = "idle"
    /\ Len(records) < MaxRecords
    /\ \E i \in DOMAIN students, c \in Confidences :
          calls' = [calls EXCEPT ![t] =
                       [pc |-> "write", key |-> "attendance", copy |-> records,
                        item |-> [studentId |-> students[i].id, timestamp |-> clock,
                                  status |-> StatusAt(clock), confidence |-> c]]]
    /\ UNCHANGED <<students, records, storedSettings, clock, tz, started, view, other,
                   faceDescriptors, registeredFaces>>
    /\ UNCHANGED besideCalls

\* markAttendance: records.push(newRecord); localStorage.setItem(...)
MarkAttendanceWrite(t) ==
    /\ calls[t].pc = "write"
    /\ calls[t].key = "attendance"
    /\ records' = MarkAttendance(calls[t].copy, calls[t].item.studentId, calls[t].item.timestamp,
                                 calls[t].item.status, calls[t].item.confidence)
    /\ calls' = [calls EXCEPT ![t].pc = "done"]
    /\ UNCHANGED <<students, storedSettings, clock, tz, started, view, other,
                   faceDescriptors, registeredFaces>>
    /\ UNCHANGED besideCalls

\* saveStudent: const students = this.getStudents(); id: this.generateId()
SaveStudentRead(t) ==
    /\ calls[t].pc = "idle"
    /\ Len(students) < MaxPeople
    /\ \E id \in GenerateIdBeside(PendingIds), role \in Roles, department \in Departments :
          /\ calls' = [calls EXCEPT ![t] =
                          [pc |-> "write", key |-> "students", copy |-> students,
                           item |-> [id |-> id, role |-> role, department |-> department]]]
    /\ UNCHANGED <<students, records, storedSettings, clock, tz, started, view, other,
                   faceDescriptors, registeredFaces>>
    /\ UNCHANGED besideCalls

\* saveStudent: students.push(newStudent); localStorage.setItem(...)
SaveStudentWrite(t) ==
    /\ calls[t].pc = "write"
    /\ calls[t].key = "students"
    /\ students' = SaveStudent(calls[t].copy, calls[t].item.id, calls[t].item.role,
                               calls[t].item.department)
    /\ calls' = [calls EXCEPT ![t].pc = "done"]
    /\ UNCHANGED <<records, storedSettings, clock, tz, started, view, other,
                   faceDescriptors, registeredFaces>>
    /\ UNCHANGED besideCalls

\* the caller goes on; the tab is free for its next call
CallReturn(t) ==
    /\ calls[t].pc = "done"
    /\ \A u \in Tabs : calls[u].pc \in {"idle", "done"}
    /\ calls' = [u \in Tabs |-> NoCall]
    /\ UNCHANGED <<students, records, storedSettings, clock, tz, started, view, other,
                   faceDescriptors, registeredFaces>>
    /\ UNCHANGED besideCalls

\* both tabs have the application open on a store that holds the roster
InitAppend ==
    /\ \E ids \in RosterIds(<<>>, <<>>, RosterSize) :
          students = AddRoster(<<>>, <<>>, ids)
    /\ records = <<>>
    /\ storedSettings = 0
    /\ clock \in Instants
    /\ tz \in TimeZones
    /\ started = TRUE
    /\ view = NoView
    /\ other = Idle
    /\ faceDescriptors = {}
    /\ registeredFaces = {}
    /\ SessionInit

NextAppend ==
    \/ \E t \in Tabs : MarkAttendanceRead(t)
    \/ \E t \in Tabs : MarkAttendanceWrite(t)
    \/ \E t \in Tabs : SaveStudentRead(t)
    \/ \E t \in Tabs : SaveStudentWrite(t)
    \/ \E t \in Tabs : CallReturn(t)

SpecAppend == InitAppend /\ [][NextAppend]_vars

(***************************************************************************)
(* FacialRecognitionSystem: the model load and the calls that need the     *)
(* models.  The calls of one page are asynchronous functions on one        *)
(* thread: each runs to its next await, and any other call of the page can *)
(* run while it waits.                                                     *)
(***************************************************************************)
FaceOperations == {"detectClassroomFaces", "registerStudentFace"}

\* detectClassroomFaces / registerStudentFace up to the first await: input checks,
\* then `if (!this.modelsLoaded) await this.initializeModels()`.  initializeModels
\* returns true at once when the models are loaded, returns false at once when a
\* load is in flight, and otherwise sets isInitializing and awaits the load; the
\* caller does not look at the value returned.
FaceCallBegin(c) ==
    /\ faceWork[c].pc = "idle"
    /\ \E op \in FaceOperations :
       \E rollNo \in IF op = "registerStudentFace" THEN RollNos ELSE {0} :
          LET call == [pc |-> "work", op |-> op, rollNo |-> rollNo]
          IN  IF modelsLoaded \/ isInitializing
              THEN /\ faceWork' = [faceWork EXCEPT ![c] = call]
                   /\ UNCHANGED isInitializing
              ELSE /\ faceWork' = [faceWork EXCEPT ![c] = [call EXCEPT !.pc = "loading"]]
                   /\ isInitializing' = TRUE
    /\ UNCHANGED <<modelsLoaded, storeVars, besideRecognizer>>

\* initializeModels after `await this.simulateProcessing(2000)`: modelsLoaded = true,
\* finally isInitializing = false, and the caller goes on past its ensure step
ModelsLoadDone(c) ==
    /\ faceWork[c].pc = "loading"
    /\ modelsLoaded' = TRUE
    /\ isInitializing' = FALSE
    /\ faceWork' = [faceWork EXCEPT ![c].pc = "work"]
    /\ UNCHANGED <<storeVars, besideRecognizer>>

\* the face work after the ensure step: detection and matching, or extraction and
\* this.faceDescriptors.set(rollNo, faceData)
FaceCallWork(c) ==
    /\ faceWork[c].pc = "work"
    /\ faceDescriptors' = IF faceWork[c].op = "registerStudentFace"
                          THEN faceDescriptors \cup {faceWork[c].rollNo}
                          ELSE faceDescriptors
    /\ faceWork' = [faceWork EXCEPT ![c] = NoCall]
    /\ UNCHANGED <<students, records, storedSettings, clock, tz, started, view, other,
                   registeredFaces>>
    /\ UNCHANGED <<modelsLoaded, isInitializing, besideRecognizer>>

\* a freshly loaded page
InitRecognizer ==
    /\ students = <<>>
    /\ records = <<>>
    /\ storedSettings = 0
    /\ clock \in Instants
    /\ tz \in TimeZones
    /\ started = TRUE
    /\ view = NoView
    /\ other = Idle
    /\ faceDescriptors = {}
    /\ registeredFaces = {}
    /\ SessionInit

NextRecognizer ==
    \/ \E c \in FaceCalls : FaceCallBegin(c)
    \/ \E c \in FaceCalls : ModelsLoadDone(c)
    \/ \E c \in FaceCalls : FaceCallWork(c)

SpecRecognizer == InitRecognizer /\ [][NextRecognizer]_vars

(***************************************************************************)
(* A marking run step by step: setIsProcessing(true), the awaits of the    *)
(* handler, and the finally block that sets isProcessing back.  Timers and *)
(* promise continuations of the page always run; the callbacks of          *)
(* navigator.geolocation.getCurrentPosition, called without a timeout      *)
(* option, run when the browser has an answer.                             *)
(***************************************************************************)
RunFlows == {"captureAndRecognize", "processUploadedImage", "processClassroomAttendance"}

\* the button handler up to its first await; the buttons are disabled while
\* isProcessing
RunStart ==
    /\ started
    /\ ~isProcessing
    /\ run.pc = "idle"
    /\ \E flow \in RunFlows :
          run' = [pc |-> IF flow = "captureAndRecognize" THEN "detect" ELSE "models",
                  flow |-> flow, queue |-> <<>>]
    /\ isProcessing' = TRUE
    /\ UNCHANGED <<storeVars, besideRuns>>

\* await facialRecognition.initializeModels() resolves
RunModels ==
    /\ run.pc = "models"
    /\ run' = [run EXCEPT !.pc = "detect"]
    /\ UNCHANGED <<isProcessing, storeVars, besideRuns>>

\* the flow's queue of faces to mark
RunQueue(flow, recognized) ==
    IF flow = "captureAndRecognize" THEN CaptureQueue(recognized)
    ELSE IF flow = "processUploadedImage" THEN UploadQueue(recognized)
    ELSE ClassroomQueue(recognized)

\* await facialRecognition.detectClassroomFaces(...) resolves.  captureAndRecognize
\* with a match goes on to await getCurrentLocation(); the other paths (no match,
\* already marked, marked) run to the end of the handler, through finally
RunDetect ==
    /\ run.pc = "detect"
    /\ \E recognized \in DetectClassroomFaces(students) :
          LET queue == RunQueue(run.flow, recognized)
          IN  IF run.flow = "captureAndRecognize" /\ queue # <<>>
              THEN /\ run' = [run EXCEPT !.pc = "location", !.queue = queue]
                   /\ UNCHANGED <<records, isProcessing>>
              ELSE /\ records' = MarkAll(records, queue, clock, StatusAt(clock))
                   /\ run' = NoCall
                   /\ isProcessing' = FALSE
    /\ Len(records') <= MaxRecords
    /\ UNCHANGED <<students, storedSettings, clock, tz, started, view, other,
                   faceDescriptors, registeredFaces, besideRuns>>

\* an await of the handler rejects: catch, then finally
RunException ==
    /\ run.pc \in {"models", "detect"}
    /\ run' = NoCall
    /\ isProcessing' = FALSE
    /\ UNCHANGED <<storeVars, besideRuns>>

\* getCurrentLocation settles: the success callback or the error callback resolves
\* it (position or campus fallback) and the entry is checked and marked; without
\* navigator.geolocation it rejects.  Either way the handler ends through finally
RunLocationSettled ==
    /\ run.pc = "location"
    /\ \E resolved \in BOOLEAN :
          records' = IF resolved THEN MarkAll(records, run.queue, clock, StatusAt(clock))
                     ELSE records
    /\ Len(records') <= MaxRecords
    /\ run' = NoCall
    /\ isProcessing' = FALSE
    /\ UNCHANGED <<students, storedSettings, clock, tz, started, view, other,
                   faceDescriptors, registeredFaces, besideRuns>>

NextRuns ==
    \/ AppStart
    \/ RunStart
    \/ RunModels
    \/ RunDetect
    \/ RunException
    \/ RunLocationSettled
    \/ Tick

SpecRuns == Init /\ [][NextRuns]_vars

\* the page's own continuations are scheduled; the geolocation callbacks are not
\* the page's to schedule
SpecRunsFair ==
    /\ SpecRuns
    /\ WF_vars(RunModels)
    /\ WF_vars(RunDetect)

(***************************************************************************)
(* Sessions and routes: signup stores an account, login and logout set the *)
(* App state and 'neoattend_auth', a page load restores the session, and   *)
(* ProtectedRoute decides what a route shows.                              *)
(***************************************************************************)
initialLoadComplete == started

\* the routes of App: public ones, protected ones without and with requiredRole
PublicRoutes == {"/", "/login", "/signup"}
Routes == PublicRoutes \cup {"/dashboard", "/students", "/student-analytics"}
RequiredRole(r) ==
    IF r = "/students" THEN "faculty"
    ELSE IF r = "/student-analytics" THEN "student"
    ELSE "null"

\* a ProtectedRoute whose requiredRole is not looked at
ProtectedRouteAnyRole(requiredRole, isLoading, authenticated, type) ==
    IF isLoading THEN "loading"
    ELSE IF ~authenticated THEN "/login"
    ELSE "children"

\* ProtectedRoute: the loading indicator, the target of <Navigate replace />, or
\* the page
ProtectedRoute(requiredRole, isLoading, authenticated, type) ==
    IF isLoading THEN "loading"
    ELSE IF ~authenticated THEN "/login"
    ELSE IF requiredRole # "null" /\ type # requiredRole THEN "/dashboard"
    ELSE "children"

\* what the router shows at the location it is at
Shown ==
    IF route \in PublicRoutes THEN "children"
    ELSE ProtectedRoute(RequiredRole(route), ~initialLoadComplete, isAuthenticated, userType)

\* the passwords typed at signup and at login
SignupPasswords == {"secret"}
Passwords == SignupPasswords \cup {"guess"}

\* a link, the address bar, or navigate(...) to a route
GoTo ==
    /\ \E r \in Routes : route' = r
    /\ UNCHANGED <<isAuthenticated, userType, storedAuth, accounts, credentials>>
    /\ UNCHANGED <<storeVars, besideAuth>>

\* <Navigate to=... replace />; Login's effect navigates to /dashboard when already
\* authenticated
FollowRedirect ==
    /\ \/ /\ route \notin PublicRoutes
          /\ Shown \in {"/login", "/dashboard"}
          /\ route' = Shown
       \/ /\ route = "/login"
          /\ isAuthenticated
          /\ route' = "/dashboard"
    /\ UNCHANGED <<isAuthenticated, userType, storedAuth, accounts, credentials>>
    /\ UNCHANGED <<storeVars, besideAuth>>

\* Signup.handleSubmit: saveStudent, the credentials under user_<rollNo>, then
\* navigate('/login')
SignupHandleSubmit ==
    /\ started
    /\ route = "/signup"
    /\ Len(students) < MaxPeople
    /\ \E id \in GenerateId(students, records), role \in Roles, department \in Departments,
          rollNo \in RollNos, password \in SignupPasswords :
          /\ id <= MaxPeople
          /\ students' = SaveStudent(students, id, role, department)
          /\ accounts' = [accounts EXCEPT ![rollNo] = [type |-> role, password |-> password]]
    /\ route' = "/login"
    /\ view' = NoView
    /\ UNCHANGED <<isAuthenticated, userType, storedAuth, credentials>>
    /\ UNCHANGED <<records, storedSettings, clock, tz, started, other,
                   faceDescriptors, registeredFaces, besideAuth>>

\* Login: the role buttons and the two fields
LoginSetCredentials ==
    /\ started
    /\ route = "/login"
    /\ \E type \in Roles, username \in RollNos, password \in Passwords :
          credentials' = [userType |-> type, username |-> username, password |-> password]
    /\ UNCHANGED <<isAuthenticated, userType, storedAuth, route, accounts>>
    /\ UNCHANGED <<storeVars, besideAuth>>

\* Login.handleSubmit: auth.login(userType, credentials), which is App.handleLogin,
\* then navigate('/dashboard'); both fields are `required`
LoginHandleSubmit ==
    /\ started
    /\ route = "/login"
    /\ credentials.username # 0
    /\ isAuthenticated' = TRUE
    /\ userType' = credentials.userType
    /\ storedAuth' = [userType |-> credentials.userType, username |-> credentials.username]
    /\ route' = "/dashboard"
    /\ UNCHANGED <<accounts, credentials>>
    /\ UNCHANGED <<storeVars, besideAuth>>

\* Navigation.handleLogout: auth.logout(), which is App.handleLogout, then navigate('/')
HandleLogout ==
    /\ route \notin PublicRoutes
    /\ Shown = "children"
    /\ isAuthenticated' = FALSE
    /\ userType' = "null"
    /\ storedAuth' = NoAuth
    /\ route' = "/"
    /\ UNCHANGED <<accounts, credentials>>
    /\ UNCHANGED <<storeVars, besideAuth>>

\* the page is loaded again at the same location: component state starts over,
\* localStorage stays
ReloadPage ==
    /\ started
    /\ started' = FALSE
    /\ view' = NoView
    /\ isAuthenticated' = FALSE
    /\ userType' = "null"
    /\ credentials' = [userType |-> "faculty", username |-> 0, password |-> ""]
    /\ faceDescriptors' = {}
    /\ registeredFaces' = {}
    /\ UNCHANGED <<storedAuth, route, accounts>>
    /\ UNCHANGED <<students, records, storedSettings, clock, tz, other, besideAuth>>

NextAuth ==
    \/ AppStart
    \/ ReloadPage
    \/ GoTo
    \/ FollowRedirect
    \/ SignupHandleSubmit
    \/ LoginSetCredentials
    \/ LoginHandleSubmit
    \/ HandleLogout

SpecAuth == Init /\ [][NextAuth]_vars

(***************************************************************************)
(* The test-data screen on the store the application start leaves: the     *)
(* summary and the "clear" button.                                         *)
(***************************************************************************)
\* the localStorage keys DatabaseService keeps its collections under
StudentsKey == "neoattend_students"
AttendanceKey == "neoattend_attendance"

\* the keys clearTestData removes
ClearedKeys == {"students", "attendance"}

\* localStorage.removeItem for each of the keys, as DatabaseService reads the result
ClearTestDataStudents(studs) == IF StudentsKey \in ClearedKeys THEN <<>> ELSE studs
ClearTestDataRecords(recs) == IF AttendanceKey \in ClearedKeys THEN <<>> ELSE recs

\* summary === null
NoSummary == [shown |-> FALSE]

\* TestDataLoader.handleClearData, confirmed: clearTestData(), setSummary(null)
HandleClearData ==
    /\ started
    /\ students' = ClearTestDataStudents(students)
    /\ records' = ClearTestDataRecords(records)
    /\ view' = [screen |-> "TestDataLoader", summary |-> NoSummary]
    /\ UNCHANGED <<storedSettings, clock, tz, started, other, faceDescriptors, registeredFaces>>
    /\ UNCHANGED sessionVars

NextClear ==
    \/ AppStart
    \/ CaptureAndRecognize
    \/ RefreshSummary
    \/ HandleClearData
    \/ Tick

SpecClear == Init /\ [][NextClear]_vars

(***************************************************************************)
(* Properties.                                                             *)
(***************************************************************************)
FacultyDashboardShown == view.screen = "Dashboard" /\ view.userType = "faculty"

\* C1: in every daily summary each registered person is counted exactly once as
\* present, late or absent: the three counts add up to the number of registered
\* people and none of them is negative, also when stored entries belong to people
\* who have been deleted.
C1_DailySummaryPartition ==
    /\ FacultyDashboardShown =>
          /\ view.stats.presentToday >= 0
          /\ view.stats.lateToday >= 0
          /\ view.stats.absentToday >= 0
          /\ view.stats.presentToday + view.stats.lateToday + view.stats.absentToday
                = view.stats.totalStudents
    /\ view.screen = "TestDataLoader" =>
          /\ view.summary.todayPresent >= 0
          /\ view.summary.todayLate >= 0
          /\ view.summary.todayAbsent >= 0
          /\ view.summary.todayPresent + view.summary.todayLate + view.summary.todayAbsent
                = view.summary.totalStudents

\* C2: the daily attendance rate shown by a screen is (present + late) / total
\* people of that screen's daily summary; Late counts like Present.
C2_RateCountsLate ==
    /\ (FacultyDashboardShown /\ view.stats.totalStudents > 0) =>
          RateEquals(view.stats.attendanceRate,
                     view.stats.presentToday + view.stats.lateToday, view.stats.totalStudents)
    /\ (view.screen = "FacultyDashboard" /\ view.stats.total > 0) =>
          RateEquals(view.stats.percentage, view.stats.present + view.stats.late, view.stats.total)
    /\ (view.screen = "FacultyAnalytics" /\ view.stats.total > 0) =>
          RateEquals(view.stats.attendanceRate, view.stats.present + view.stats.late,
                     view.stats.total)

\* the statuses of the entries of person sid on the given day that carry the
\* latest timestamp of that day
LatestStatuses(recs, sid, day) ==
    LET own == {i \in DOMAIN recs : recs[i].studentId = sid /\ LocalDay(recs[i].timestamp) = day}
    IN  {recs[i].status : i \in {j \in own : \A k \in own : recs[k].timestamp <= recs[j].timestamp}}

HasEntryOn(recs, sid, day) == LatestStatuses(recs, sid, day) # {}

FacultyDashboardFresh ==
    /\ view.screen = "FacultyDashboard"
    /\ view.attendanceData = StatusRows(students, GetTodayAttendance(records, clock))

FacultyAnalyticsFresh ==
    /\ view.screen = "FacultyAnalytics"
    /\ view.sessionData = FacultyAnalyticsView(students, records, clock).sessionData

StudentAnalyticsFresh ==
    /\ view.screen = "StudentAnalytics"
    /\ view = StudentAnalyticsView(students, records, tz)

\* C3: when a person has several entries on one day, the status the daily views
\* show for that person and day is the status of the entry with the latest
\* timestamp, in whatever order the entries are stored.
C3_LastByTimestamp ==
    /\ FacultyDashboardFresh =>
          \A i \in DOMAIN view.attendanceData :
              HasEntryOn(records, view.attendanceData[i].id, LocalDay(clock)) =>
                  view.attendanceData[i].status
                      \in LatestStatuses(records, view.attendanceData[i].id, LocalDay(clock))
    /\ FacultyAnalyticsFresh =>
          \A i \in DOMAIN view.sessionData :
              HasEntryOn(records, view.sessionData[i].id, LocalDay(clock)) =>
                  view.sessionData[i].status
                      \in LatestStatuses(records, view.sessionData[i].id, LocalDay(clock))
    /\ (StudentAnalyticsFresh /\ view.studentData # 0) =>
          \A d \in PickableDays :
              HasEntryOn(records, view.studentData, d) =>
                  view.calendar[d] \in LatestStatuses(records, view.studentData, d)

\* seconds since local midnight
SecondOfDay(ts) == ts % DaySec
\* scheduled start 09:00 plus a grace period of g minutes
GraceEnd(g) == 9 * 3600 + g * 60

Automated(r) == r.confidence # ManualConfidence

\* C4: every entry created by an automated flow is stored Present exactly when
\* its timestamp is at or before 09:00 plus the grace period of 15 minutes, and
\* Late otherwise; 09:15:00 itself is Present, 09:15:01 to 09:15:59 are Late.
C4_StatusFromTimestamp ==
    \A i \in DOMAIN records :
        Automated(records[i]) =>
            /\ records[i].status \in {"Present", "Late"}
            /\ records[i].status = "Present"
                  <=> SecondOfDay(records[i].timestamp) <= GraceEnd(DefaultLateThreshold)

\* C5: once the lateThreshold setting has been changed to g minutes, every entry an
\* automated flow creates afterwards is stored Present exactly when its timestamp
\* is at or before 09:00 + g.
C5_GraceConfigurable ==
    [][storedSettings # 0 =>
          \A i \in DOMAIN records' :
              (i > Len(records) /\ Automated(records'[i])) =>
                  (records'[i].status = "Present"
                      <=> SecondOfDay(records'[i].timestamp) <= GraceEnd(storedSettings))]_vars

\* the statuses stored for person sid on the given day
StoredStatuses(recs, sid, day) ==
    {recs[i].status : i \in {j \in DOMAIN recs : /\ recs[j].studentId = sid
                                                  /\ LocalDay(recs[j].timestamp) = day}}

\* what the screens that read the store show for a person and a day is a status
\* stored for that person and day, or the absence of any entry.  (The result list
\* of ClassroomAttendance shows the outcome of the photo run, MarkedStudents, and
\* reads no entry.)
ScreensReportStored ==
    /\ FacultyDashboardFresh =>
          \A i \in DOMAIN view.attendanceData :
              IF HasEntryOn(records, view.attendanceData[i].id, LocalDay(clock))
              THEN view.attendanceData[i].status
                      \in StoredStatuses(records, view.attendanceData[i].id, LocalDay(clock))
              ELSE view.attendanceData[i].status = "Absent"
    /\ FacultyAnalyticsFresh =>
          \A i \in DOMAIN view.sessionData :
              IF HasEntryOn(records, view.sessionData[i].id, LocalDay(clock))
              THEN view.sessionData[i].status
                      \in StoredStatuses(records, view.sessionData[i].id, LocalDay(clock))
              ELSE view.sessionData[i].status = "Absent"
    /\ (StudentAnalyticsFresh /\ view.studentData # 0) =>
          \A d \in PickableDays :
              IF HasEntryOn(records, view.studentData, d)
              THEN view.calendar[d] \in StoredStatuses(records, view.studentData, d)
              ELSE view.calendar[d] = "null"

C7_DayAttribution ==
    /\ view.screen = "FacultyDashboard" =>
          \A i \in DOMAIN view.attendanceData :
              IF HasEntryOn(records, view.attendanceData[i].id, view.selectedDate)
              THEN view.attendanceData[i].status
                      \in StoredStatuses(records, view.attendanceData[i].id, view.selectedDate)
              ELSE view.attendanceData[i].status = "Absent"
    /\ view.screen = "Analytics" =>
          \A k \in DOMAIN view.dailyStats :
              /\ view.dailyStats[k].present
                    = Count(records, LAMBDA r : /\ LocalDay(r.timestamp) = view.dailyStats[k].date
                                                /\ r.status = "Present")
              /\ view.dailyStats[k].late
                    = Count(records, LAMBDA r : /\ LocalDay(r.timestamp) = view.dailyStats[k].date
                                                /\ r.status = "Late")

\* C8: with no registered person every rate or percentage shown is 0, never NaN
\* or Infinity, the statistics of the classroom report and export included.
C8_ZeroRateWithoutPeople ==
    /\ (FacultyDashboardShown /\ view.stats.totalStudents = 0) =>
          RateIsZero(view.stats.attendanceRate)
    /\ (view.screen = "FacultyDashboard" /\ view.stats.total = 0) =>
          RateIsZero(view.stats.percentage)
    /\ (view.screen = "FacultyAnalytics" /\ view.stats.total = 0) =>
          RateIsZero(view.stats.attendanceRate)
    /\ (view.screen = "Analytics" /\ Len(students) = 0) =>
          RateIsZero(view.averageAttendance)
    /\ (view.screen = "ClassroomAttendance" /\ view.report.made
           /\ view.report.statistics.totalStudents = 0) =>
          RateIsZero(view.report.statistics.attendancePercentage)

\* C9: a person's attendance percentage lies in [0, 100] and is 0 when the person
\* has no entries, also with several entries on one day.
C9_PercentageInRange ==
    /\ view.screen = "StudentMonitoring" =>
          \A i \in DOMAIN view.studentStats :
              /\ RateInPercentRange(view.studentStats[i].attendancePercentage)
              /\ view.studentStats[i].totalClasses = 0 =>
                    RateIsZero(view.studentStats[i].attendancePercentage)
    /\ view.screen = "StudentAnalytics" =>
          /\ RateInPercentRange(view.dailyStats.attendanceRate)
          /\ Len(view.attendanceRecords) = 0 => RateIsZero(view.dailyStats.attendanceRate)
    /\ view.screen = "Analytics" =>
          RateInPercentRange(view.averageAttendance)

\* 100 * (attended entries of the recent window * size of the prior window
\*        - attended entries of the prior window * size of the recent window),
\* and the product of the two sizes; an empty window has rate 0 and counts as size 1
WindowSize(window) == IF Len(window) > 0 THEN Len(window) ELSE 1
RateDifference(studentRecords, now) ==
    LET recent == Last7Days(studentRecords, now)
        prior == Previous7Days(studentRecords, now)
    IN  [num |-> 100 * (NonAbsent(recent) * WindowSize(prior)
                        - NonAbsent(prior) * WindowSize(recent)),
         den |-> WindowSize(recent) * WindowSize(prior)]

\* C10: the trend is improving exactly when the recent window's non-absent rate
\* is more than 10 points above the prior window's, declining exactly when it is
\* more than 10 points below, and stable otherwise (also at exactly 10 points);
\* an empty window has rate 0.
C10_TrendRule ==
    view.screen = "StudentMonitoring" =>
        \A i \in DOMAIN view.studentStats :
            LET d == RateDifference(RecordsOf(records, view.studentStats[i].student), clock)
            IN  /\ view.studentStats[i].trend = "improving" <=> d.num > 10 * d.den
                /\ view.studentStats[i].trend = "declining" <=> d.num < -10 * d.den
                /\ view.studentStats[i].trend = "stable"
                      <=> (d.num <= 10 * d.den /\ d.num >= -10 * d.den)

\* a person whose recent rate is exactly 10 points above the prior rate is stable
C10_Witness ==
    /\ view.screen = "StudentMonitoring"
    /\ \E i \in DOMAIN view.studentStats :
          LET d == RateDifference(RecordsOf(records, view.studentStats[i].student), clock)
          IN  /\ d.num = 10 * d.den
              /\ Len(Last7Days(records, clock)) > 0
              /\ Len(Previous7Days(records, clock)) > 0
              /\ view.studentStats[i].trend = "stable"

InRecentWindow(r, now) == Len(Last7Days(<<r>>, now)) = 1
InPriorWindow(r, now) == Len(Previous7Days(<<r>>, now)) = 1

\* C11: the trend compares two adjacent 7-day windows that do not overlap: an
\* entry counted in the recent window was written within the last 7 days, an
\* entry counted in the prior window was written more than 7 and less than 15
\* days ago, and no entry is counted in both.
C11_TrendWindows ==
    \A i \in DOMAIN records :
        LET r == records[i]
            age == clock - r.timestamp
        IN  /\ InRecentWindow(r, clock) => (age >= 0 /\ age <= TrendWindow * DaySec)
            /\ InPriorWindow(r, clock) =>
                  (age > TrendWindow * DaySec /\ age < (2 * TrendWindow + 1) * DaySec)
            /\ ~(InRecentWindow(r, clock) /\ InPriorWindow(r, clock))

StudentMonitoringShown == view.screen = "StudentMonitoring"

\* the entries of the person that are Absent and have no attended entry before
\* them in most-recent-first order (entries of one timestamp keep the stored
\* order)
AbsentRunAtRecentEnd(studentRecords) ==
    {i \in DOMAIN studentRecords :
        /\ studentRecords[i].status = "Absent"
        /\ \A j \in DOMAIN studentRecords :
              studentRecords[j].status # "Absent" =>
                 \/ studentRecords[j].timestamp < studentRecords[i].timestamp
                 \/ studentRecords[j].timestamp = studentRecords[i].timestamp /\ j > i}

MostRecentIsAttended(studentRecords) ==
    \E j \in DOMAIN studentRecords :
        /\ studentRecords[j].status # "Absent"
        /\ \A i \in DOMAIN studentRecords : i # j =>
              studentRecords[i].timestamp < studentRecords[j].timestamp

\* C12: consecutiveAbsences is the length of the run of Absent entries at the
\* most-recent end of the person's entries sorted most-recent-first by timestamp,
\* whatever the order in which the store holds them; it is 0 when the most recent
\* entry is not Absent and 0 when the person has no entries.
C12_ConsecutiveAbsences ==
    StudentMonitoringShown =>
        \A i \in DOMAIN view.studentStats :
            LET stat == view.studentStats[i]
                studentRecords == RecordsOf(records, stat.student)
            IN  /\ stat.consecutiveAbsences = Cardinality(AbsentRunAtRecentEnd(studentRecords))
                /\ studentRecords = <<>> => stat.consecutiveAbsences = 0
                /\ MostRecentIsAttended(studentRecords) => stat.consecutiveAbsences = 0

\* two Absent entries newer than an attended one, stored oldest of the three
\* last
C12_Witness ==
    /\ StudentMonitoringShown
    /\ Len(view.studentStats) = 1
    /\ view.studentStats[1].consecutiveAbsences = 2
    /\ Len(records) = 3
    /\ records[1].status # "Absent"
    /\ records[1].timestamp < records[2].timestamp
    /\ records[1].timestamp < records[3].timestamp

\* the statuses of the person's entries from the most recent to the oldest, when
\* no two entries share a timestamp
StatusesMostRecentFirst(studentRecords, statuses) ==
    /\ Len(studentRecords) = Len(statuses)
    /\ \E order \in [DOMAIN statuses -> DOMAIN studentRecords] :
          /\ \A k \in DOMAIN statuses : studentRecords[order[k]].status = statuses[k]
          /\ \A k \in DOMAIN statuses : \A l \in DOMAIN statuses :
                k < l => studentRecords[order[k]].timestamp > studentRecords[order[l]].timestamp

PresentThenTwoAbsent ==
    /\ StudentMonitoringShown
    /\ Len(view.studentStats) = 1
    /\ StatusesMostRecentFirst(RecordsOf(records, view.studentStats[1].student),
                               <<"Present", "Absent", "Absent">>)

\* C13 as stated: for a person whose entries, most recent first, are Present,
\* Absent, Absent, the statistics give consecutiveAbsences = 2.
C13_ExampleAsStated ==
    PresentThenTwoAbsent => view.studentStats[1].consecutiveAbsences = 2

\* C13: for a person whose entries, most recent first, are Present, Absent,
\* Absent, the statistics give consecutiveAbsences = 0, the most recent entry
\* being attended; with the entries Absent, Absent, Present they give 2.
C13_ExampleMostRecentFirst ==
    /\ PresentThenTwoAbsent => view.studentStats[1].consecutiveAbsences = 0
    /\ (/\ StudentMonitoringShown
        /\ Len(view.studentStats) = 1
        /\ StatusesMostRecentFirst(RecordsOf(records, view.studentStats[1].student),
                                   <<"Absent", "Absent", "Present">>))
          => view.studentStats[1].consecutiveAbsences = 2

C13_Witness == PresentThenTwoAbsent /\ view.studentStats[1].consecutiveAbsences = 0

StudentAnalyticsShown == view.screen = "StudentAnalytics"

\* every order in which the entries can have been inserted
Reorderings(recs) ==
    {[k \in DOMAIN recs |-> recs[order[k]]] :
        order \in {f \in [DOMAIN recs -> DOMAIN recs] : \A k, l \in DOMAIN recs : f[k] = f[l] => k = l}}

\* C14: the weekly buckets are emitted in non-decreasing chronological order of
\* the week start, and the emitted sequence is the same for every insertion
\* order of the entries.
C14_WeeklyBucketsOrdered ==
    StudentAnalyticsShown =>
        /\ \A k \in DOMAIN view.weeklyData : \A l \in DOMAIN view.weeklyData :
              k < l => view.weeklyData[k].week <= view.weeklyData[l].week
        /\ \A other_order \in Reorderings(view.attendanceRecords) :
              CalculateWeeklyStats(other_order, tz) = view.weeklyData

\* an explicit Absent entry of the person, written now
ExplicitAbsent(sid, now) ==
    [studentId |-> sid, timestamp |-> now, status |-> "Absent", confidence |-> ManualConfidence]

SameRate(a, b) == a.num * b.den = b.num * a.den

\* C15: for a person without an entry today, adding an explicit Absent entry for
\* today changes neither the daily counts, nor the status shown for the day, nor
\* the person's attendance percentage, nor the person's consecutiveAbsences.
C15_ImplicitAbsentDuality ==
    \A i \in DOMAIN students :
        LET sid == students[i].id
            explicit == Append(records, ExplicitAbsent(sid, clock))
            today == LocalDay(clock)
        IN  GetTodayAttendance(RecordsOf(records, sid), clock) = <<>> =>
               /\ CalculateStats(StatusRows(students, GetTodayAttendance(explicit, clock)))
                     = CalculateStats(StatusRows(students, GetTodayAttendance(records, clock)))
               /\ StatusRows(students, GetTodayAttendance(explicit, clock))
                     = StatusRows(students, GetTodayAttendance(records, clock))
               /\ GetDayAttendance(RecordsOf(explicit, sid), today)
                     = GetDayAttendance(RecordsOf(records, sid), today)
               /\ SameRate(StudentStats(sid, explicit, clock).attendancePercentage,
                           StudentStats(sid, records, clock).attendancePercentage)
               /\ StudentStats(sid, explicit, clock).consecutiveAbsences
                     = StudentStats(sid, records, clock).consecutiveAbsences

\* two records of one person: the same roll number (employee id) in the same role
SamePerson(a, b) == a.rollNo = b.rollNo /\ a.role = b.role

\* C16: no two person records of the collection have the same identifier, and no
\* person is stored twice, whatever was registered, loaded and deleted before.
C16_PeopleStoredOnce ==
    \A i \in DOMAIN students : \A j \in DOMAIN students :
        i # j => /\ students[i].id # students[j].id
                 /\ ~SamePerson(students[i], students[j])

StoredIds == {students[i].id : i \in DOMAIN students}

\* C17: no step changes the identifier or the creation timestamp of a stored
\* person record: a record that is still stored under its identifier keeps its
\* createdAt, a step that keeps the number of records keeps every identifier in
\* its place, and updateStudent with an identifier that is not stored leaves the
\* collection as it is.
C17_IdentityImmutable ==
    /\ [][/\ \A i \in DOMAIN students : \A j \in DOMAIN students' :
                students'[j].id = students[i].id =>
                   students'[j].createdAt = students[i].createdAt
          /\ Len(students') = Len(students) =>
                \A i \in DOMAIN students : students'[i].id = students[i].id]_vars
    /\ [](\A studentData \in StudentValues :
             studentData.id \notin StoredIds => UpdateStudent(students, studentData) = students)

\* C18: every stored person whose faceRegistered flag is true has a signature
\* stored under that person's roll number in the recognizer that the marking
\* flows match against (facialRecognition.faceDescriptors).
C18_EnrolledHaveSignature ==
    \A i \in DOMAIN students :
        students[i].faceRegistered => students[i].rollNo \in faceDescriptors

\* a rate that is a number: neither NaN nor Infinity
IsNumber(rate) == rate.den # 0

\* C19: every aggregation returns defined values for every store, also without
\* people, without entries and with entries of deleted people: every rate shown
\* is a number, and a person without entries has rate 0, trend stable, no
\* last-attended date and no consecutive absences.
C19_AggregationsTotal ==
    /\ StudentMonitoringShown =>
          \A i \in DOMAIN view.studentStats :
              LET stat == view.studentStats[i]
              IN  /\ IsNumber(stat.attendancePercentage)
                  /\ stat.totalClasses = 0 =>
                        /\ RateIsZero(stat.attendancePercentage)
                        /\ stat.trend = "stable"
                        /\ stat.lastAttended = -1
                        /\ stat.consecutiveAbsences = 0
    /\ StudentAnalyticsShown => IsNumber(view.dailyStats.attendanceRate)
    /\ FacultyDashboardShown => IsNumber(view.stats.attendanceRate)
    /\ view.screen = "FacultyDashboard" => IsNumber(view.stats.percentage)
    /\ view.screen = "FacultyAnalytics" => IsNumber(view.stats.attendanceRate)
    /\ view.screen = "Analytics" => IsNumber(view.averageAttendance)
    /\ (view.screen = "ClassroomAttendance" /\ view.report.made) =>
          IsNumber(view.report.statistics.attendancePercentage)

\* the stored people that StudentMonitoring shows, in stored order
MonitoredIds ==
    LET shown == Filter(students, LAMBDA s : s.role = "student")
    IN  [i \in 1 .. Len(shown) |-> shown[i].id]

\* C20: computing and sorting statistics has no side effects: a step that
\* mounts a statistics screen or sorts its rows leaves the stored people and
\* entries as they are, and the in-memory statistics array keeps the order in
\* which it was computed, the stored order of the people.
C20_AggregationFrame ==
    /\ [][(view' # view /\ view'.screen \in {"StudentMonitoring", "StudentAnalytics", "Analytics",
                                             "FacultyAnalytics", "Dashboard"})
             => (students' = students /\ records' = records)]_vars
    /\ [](StudentMonitoringShown =>
             [i \in 1 .. Len(view.studentStats) |-> view.studentStats[i].student] = MonitoredIds)

\* the entries of the period shown by Analytics
PeriodEntries == Filter(records, LAMBDA a : a.timestamp >= clock - PeriodDays * DaySec)
DepartmentMembers(dept) == {i \in DOMAIN students : students[i].department = dept}
DepartmentEntries(dept) ==
    Count(PeriodEntries, LAMBDA a : /\ a.status # "Absent"
                                    /\ \E i \in DepartmentMembers(dept) :
                                           students[i].id = a.studentId)

\* C21: every department of a stored person has one row, and its rate is the
\* number of Present or Late entries of the department's people in the period
\* over (people in the department * days of the period), as a percentage; one
\* entry per person per day is what a full period holds.
C21_DepartmentRate ==
    view.screen = "Analytics" =>
        /\ {view.departmentStats[k].department : k \in DOMAIN view.departmentStats}
               = {students[i].department : i \in DOMAIN students}
        /\ \A k \in DOMAIN view.departmentStats :
               LET row == view.departmentStats[k]
               IN  RateEquals(row.rate, DepartmentEntries(row.department),
                              Cardinality(DepartmentMembers(row.department)) * PeriodDays)

EntriesOn(recs, sid, day) ==
    Count(recs, LAMBDA r : r.studentId = sid /\ LocalDay(r.timestamp) = day)
EntryIds(recs) == {recs[i].studentId : i \in DOMAIN recs}
EntryDays(recs) == {LocalDay(recs[i].timestamp) : i \in DOMAIN recs}

OneEntryPerDay ==
    \A sid \in EntryIds(records) : \A day \in EntryDays(records) :
        EntriesOn(records, sid, day) <= 1

\* a step leaves alone the entries of every student who has an entry today
MarkedStudentsKept ==
    \A sid \in EntryIds(records) :
        EntriesOn(records, sid, LocalDay(clock)) >= 1 =>
            EntriesOn(records', sid, LocalDay(clock)) <= EntriesOn(records, sid, LocalDay(clock))

\* C22: with one tab marking (camera, uploaded photo, classroom photo, manual
\* edits), the store never holds two entries of one student on one calendar
\* day, also when a photo shows the same student twice, and a marking for a
\* student who already has an entry today writes nothing.
C22_OneEntryPerStudentPerDay == [][MarkedStudentsKept]_vars /\ []OneEntryPerDay

\* a classroom photo that showed the same student twice left one entry
C22_Witness ==
    /\ view.screen = "ClassroomAttendance"
    /\ Len(view.markedStudents) = 2
    /\ view.markedStudents[1].id = view.markedStudents[2].id
    /\ EntriesOn(records, view.markedStudents[1].id, LocalDay(clock)) = 1
    /\ \E i \in DOMAIN records : /\ records[i].studentId = view.markedStudents[1].id
                                 /\ records[i].timestamp = clock

ShownStatus(rows, sid) == {rows[i].status : i \in {k \in DOMAIN rows : rows[k].id = sid}}
ShownIds(rows) == {rows[i].id : i \in DOMAIN rows}

\* a save of the faculty's edits followed by the reload of today's view
ManualSaveStep ==
    /\ view.screen = "FacultyDashboard"
    /\ view.edited # <<>>
    /\ view'.screen = "FacultyDashboard"
    /\ view'.alert.shown

\* C23: after the faculty's edits are saved, the reloaded view of today shows
\* every edited student with the status the edit chose (Present, Late or
\* Absent), whether or not the student had an entry today, and the number of
\* updated students the alert reports is the number of students whose shown
\* status changed.
C23_ManualEditShown ==
    [][ManualSaveStep =>
          /\ \A k \in DOMAIN view.edited :
                ShownStatus(view'.attendanceData, view.edited[k].id) = {view.edited[k].status}
          /\ view'.alert.updatedCount =
                Cardinality({sid \in ShownIds(view.attendanceData) :
                                ShownStatus(view'.attendanceData, sid)
                                    # ShownStatus(view.attendanceData, sid)})]_vars

CallsCompleted == \A t \in Tabs : calls[t].pc = "done"
\* the collection a completed call appended to
StoredUnder(key) == IF key = "students" THEN students ELSE records
Appended(key, item) == {t \in Tabs : calls[t].key = key /\ calls[t].item = item}

\* C24: when both tabs have completed a markAttendance or saveStudent call, the
\* collection holds the new record of each of the two calls, however the tabs'
\* reads and writes were interleaved.
C24_NoLostAppend ==
    CallsCompleted =>
        \A t \in Tabs :
            Count(StoredUnder(calls[t].key), LAMBDA r : r = calls[t].item)
                >= Cardinality(Appended(calls[t].key, calls[t].item))

LoadsInFlight == {c \in FaceCalls : faceWork[c].pc = "loading"}

\* C25: a detectClassroomFaces or registerStudentFace call that is past its
\* ensure step finds the models loaded, also when another call's load was in
\* flight at the ensure step; at most one load is in flight, and isInitializing
\* is false when none is.
C25_ModelsLoadedBeforeFaceWork ==
    /\ \A c \in FaceCalls : faceWork[c].pc = "work" => modelsLoaded
    /\ Cardinality(LoadsInFlight) <= 1
    /\ LoadsInFlight = {} => ~isInitializing

\* C26: every started captureAndRecognize, processUploadedImage or
\* processClassroomAttendance run eventually sets isProcessing back to false,
\* on every path: success, no match, already marked, exception, location lookup.
C26_RunsEnd == isProcessing ~> ~isProcessing

RoleAllowed == RequiredRole(route) \in {"null", userType}
RedirectTarget == IF ~isAuthenticated THEN "/login" ELSE "/dashboard"

\* C27 as stated: a protected route shows its page only to an authenticated
\* user of the role the route requires, and in every other auth state redirects
C27_RoutesGuardedAlways ==
    route \notin PublicRoutes =>
        /\ Shown = "children" => (isAuthenticated /\ RoleAllowed)
        /\ ~(isAuthenticated /\ RoleAllowed) => Shown = RedirectTarget

\* C27: a protected route shows its page only while isAuthenticated is true and
\* userType is the role the route requires, if it requires one.  Once the
\* initial load is complete every other auth state (nobody logged in, a
\* restored session of the other role, the state after logout) is redirected,
\* to /login when unauthenticated and to /dashboard on a role mismatch; until
\* then the route shows the loading indicator, neither the page nor a redirect.
C27_RoutesGuarded ==
    route \notin PublicRoutes =>
        /\ Shown = "children" => (isAuthenticated /\ RoleAllowed)
        /\ (initialLoadComplete /\ ~(isAuthenticated /\ RoleAllowed)) => Shown = RedirectTarget
        /\ ~initialLoadComplete => Shown = "loading"

\* a session of a student, written by a login, at a faculty-only route after the
\* load: redirected to /dashboard
C27_Witness ==
    /\ initialLoadComplete
    /\ storedAuth # NoAuth
    /\ isAuthenticated
    /\ userType = "student"
    /\ route = "/students"
    /\ Shown = "/dashboard"

\* an account of role type stored at signup under the user name, with the password
AccountMatches(username, password, type) ==
    /\ username \in DOMAIN accounts
    /\ accounts[username] = [type |-> type, password |-> password]

\* Login.handleSubmit has run: a session begins on a loaded page
LoginStep == initialLoadComplete /\ ~isAuthenticated /\ isAuthenticated'

\* C28: a login establishes a session of role T only for a user name and
\* password that match an account of role T stored at signup, so a session with
\* userType faculty exists only once a faculty account has been stored.
C28_LoginNeedsAccount ==
    /\ [][LoginStep =>
            AccountMatches(credentials.username, credentials.password, userType')]_vars
    /\ [](userType = "faculty" =>
            \E rollNo \in DOMAIN accounts : accounts[rollNo].type = "faculty")

\* the application starts: App's mount effect runs
ApplicationStarts == ~started /\ started'

\* C29: the database starts empty and starting the application adds nothing to
\* it: a fresh store holds no person and no entry until a user adds one
\* through the interface.
C29_StartsEmpty ==
    /\ [][ApplicationStarts => (students' = students /\ records' = records)]_vars
    /\ [](~started => (students = <<>> /\ records = <<>>))

\* C30: once clearTestData has returned (the test-data screen shows no summary),
\* getStudents() and getAttendanceRecords() are both empty, whatever was stored
\* before.
C30_ClearDeletesAll ==
    (view.screen = "TestDataLoader" /\ view.summary = NoSummary) =>
        (students = <<>> /\ records = <<>>)
====
